---- MODULE Spec2Model ----
(***************************************************************************)
(* The asynchronous load manager of core/src/loader.rs: the generational   *)
(* table of loader records (LoadManager), the futures the load_* entry     *)
(* points return, the update sections those futures run under the player   *)
(* lock, the Movie status machine with its preload ticks, and the          *)
(* per-frame sweep movie_clip_on_load.                                      *)
(*                                                                         *)
(* Option<T> is a sequence: None == <<>>, Some(x) == <<x>>.  A load is     *)
(* named by the order of its registration (1, 2, ...); that number is also *)
(* the identity of its target object or clip.  Arena slots are numbered    *)
(* from 1 (the crate numbers them from 0).                                 *)
(***************************************************************************)
EXTENDS Integers, Sequences, FiniteSets, TLC

VARIABLES load_manager, fut, clips, trace, hist, lock, playerPc, root_movie,
          is_action_script_3, lastTick, vmErrors, scope, qname

vars == <<load_manager, fut, clips, trace, hist, lock, playerPc, root_movie,
          is_action_script_3, lastTick, vmErrors, scope, qname>>

\* What a run of loads never changes: the player's VM, the scope of the run,
\* and the QName under construction (avm2/globals/q_name.rs), which no loader
\* touches.
settings == <<is_action_script_3, scope, qname>>

\* ---------------------------------------------------------------- bounds
\* Loads registered in one run whose effects are traced one by one.
MaxTraced == 1
\* Loads registered in one run of several loads.
MaxLoads == 2
\* Longest response body, in bytes; an SWF preloads at least one byte a tick.
MaxLen == 2
\* Deepest nesting of SWZ containers around a body.
MaxSwz == 2
\* Script-VM failures (event construction, property reads) in one run.
MaxVmErrors == 1
\* Longest string among the arguments of a QName constructor call.
MaxChars == 1

\* Arena::new() is Arena::with_capacity(4).
DefaultCapacity == 4

None == <<>>
Some(x) == <<x>>
Min(a, b) == IF a < b THEN a ELSE b

\* ---------------------------------------------------------- content types
ContentTypes == {"Swf", "Jpeg", "Png", "Gif", "Unknown"}

\* A response body: `swz` SWZ containers wrapped around bytes that sniff as
\* `sniffs`, are `len` bytes long and parse or decode iff `valid`.
Bodies == {d \in [swz : 0..MaxSwz, sniffs : ContentTypes, valid : BOOLEAN, len : 0..MaxLen] :
              /\ d.sniffs # "Unknown" => d.len >= 1
              /\ d.sniffs = "Unknown" => ~d.valid}

\* ContentType::sniff: an SWZ container is neither an SWF nor an image.
sniff(data) == IF data.swz > 0 THEN "Unknown" ELSE data.sniffs

\* swf::read::extract_swz: Ok(inner bytes) for a container, Err otherwise.
extract_swz(data) == IF data.swz > 0 THEN Some([data EXCEPT !.swz = @ - 1]) ELSE None

\* ContentType::expect
expect(actual, expected) == IF actual = expected THEN "Ok" ELSE "UnexpectedData"

SwfMovie(url, len) == [url |-> url, len |-> len, parameters |-> <<>>]

\* ------------------------------------------------- generational_arena::Arena
FreeEntry(next) == [occ |-> FALSE, generation |-> 0, next_free |-> next,
                    value |-> [kind |-> "-", self_handle |-> None, target |-> 0,
                               event_handler |-> "None", loader_status |-> "Pending",
                               movie |-> None]]

OccupiedEntry(g, v) == [occ |-> TRUE, generation |-> g, next_free |-> 0, value |-> v]

\* Arena::reserve: n more free slots, chained in front of the free list.
ArenaReserve(a, n) ==
    LET start == Len(a.items)
    IN [a EXCEPT !.items = a.items \o [i \in 1..n |->
                                 FreeEntry(IF i = n THEN a.free_list_head ELSE start + i + 1)],
                 !.free_list_head = start + 1]

ArenaNew == ArenaReserve([items |-> <<>>, generation |-> 0, free_list_head |-> 0], DefaultCapacity)

\* Arena::insert: the head of the free list, growing the arena when it is empty.
ArenaInsert(a, v) ==
    LET b == IF a.free_list_head = 0
             THEN ArenaReserve(a, IF Len(a.items) = 0 THEN 1 ELSE Len(a.items))
             ELSE a
        i == b.free_list_head
    IN [arena |-> [b EXCEPT !.free_list_head = b.items[i].next_free,
                            !.items[i] = OccupiedEntry(b.generation, v)],
        handle |-> [index |-> i, generation |-> b.generation]]

\* Arena::get / Arena::get_mut: the slot's value when the generations agree.
ArenaGet(a, h) ==
    IF /\ h.index \in 1..Len(a.items)
       /\ a.items[h.index].occ
       /\ a.items[h.index].generation = h.generation
    THEN Some(a.items[h.index].value)
    ELSE None

\* Writing through the &mut that get_mut returned.
ArenaSet(a, h, v) == [a EXCEPT !.items[h.index].value = v]

\* A removal that frees the slot within the same generation.
ArenaRemove_same_generation(a, h) ==
    IF h.index \in 1..Len(a.items) /\ a.items[h.index].occ
    THEN [a EXCEPT !.items[h.index] = [occ |-> FALSE, generation |-> 0, next_free |-> a.free_list_head,
                                       value |-> [kind |-> "-", self_handle |-> <<>>, target |-> 0,
                                                  event_handler |-> "None", loader_status |-> "Pending",
                                                  movie |-> <<>>]],
                   !.free_list_head = h.index]
    ELSE a

\* Arena::remove: frees the slot and starts a new generation.
ArenaRemove(a, h) ==
    IF ArenaGet(a, h) = None THEN a
    ELSE [a EXCEPT !.items[h.index] = FreeEntry(a.free_list_head),
                   !.generation = @ + 1,
                   !.free_list_head = h.index]

\* Arena::iter: the handles of the occupied slots, in slot order.
RECURSIVE ArenaIterFrom(_, _)
ArenaIterFrom(a, i) ==
    IF i > Len(a.items) THEN <<>>
    ELSE (IF a.items[i].occ THEN <<[index |-> i, generation |-> a.items[i].generation]>> ELSE <<>>)
         \o ArenaIterFrom(a, i + 1)

ArenaIter(a) == ArenaIterFrom(a, 1)

Reverse(s) == [i \in 1..Len(s) |-> s[Len(s) + 1 - i]]

\* ------------------------------------------------------------- LoadManager
\* One Loader record; the fields a kind lacks keep their defaults.
Loader(kind, target, event_handler) ==
    [kind |-> kind, self_handle |-> None, target |-> target, event_handler |-> event_handler,
     loader_status |-> "Pending", movie |-> None]

get_loader(lm, handle) == ArenaGet(lm, handle)

get_loader_mut(lm, handle) == ArenaGet(lm, handle)

\* add_loader without `*self_handle = Some(handle)`: the record is never told
\* its handle.
add_loader_unstamped(lm, loader) ==
    LET ins == ArenaInsert(lm, loader)
    IN [lm |-> ins.arena, handle |-> ins.handle]

add_loader(lm, loader) ==
    LET ins == ArenaInsert(lm, loader)
    IN [lm |-> ArenaSet(ins.arena, ins.handle, [loader EXCEPT !.self_handle = Some(ins.handle)]),
        handle |-> ins.handle]

\* ------------------------------------------------------ the update context
\* What an update section works on.  vmfail = n > 0 says that the n-th
\* fallible script-VM operation of the section fails; 0 says none does.
UpdateContext(n) ==
    [load_manager |-> load_manager, clips |-> clips, trace |-> trace, hist |-> hist, vmfail |-> n]

R(uc, r) == [uc |-> uc, r |-> r]

Fails(uc) == uc.vmfail = 1

Tried(uc) == [uc EXCEPT !.vmfail = IF @ > 0 THEN @ - 1 ELSE 0]

\* One effect of load l on its sink or clip, in the order the code makes them.
Emit(uc, l, name, cur, total) ==
    IF scope.trace
    THEN [uc EXCEPT !.trace[l] = Append(@, [name |-> name, cur |-> cur, total |-> total])]
    ELSE uc

Step(uc, l, name) == Emit(uc, l, name, 0, 0)

IsMovieClip(c) == c.kind \in {"root", "mc"}

\* MovieClip::replace_with_movie
replace_with_movie(uc, l, movie) ==
    Step([uc EXCEPT !.clips[l] = [@ EXCEPT !.content = IF movie = None THEN "empty" ELSE "swf",
                                           !.loaded = 0,
                                           !.total = IF movie = None THEN 0 ELSE movie[1].len]],
         l, IF movie = None THEN "replace_with_movie(None)" ELSE "replace_with_movie")

\* MovieClip::preload under an ExecutionLimit that lets adv >= 1 bytes through.
preload(c, adv) == [c EXCEPT !.loaded = Min(c.total, c.loaded + adv)]

\* `*loader_status = ...` on the record at h; hist keeps each new value.
set_loader_status(uc, h, status) ==
    LET me == get_loader_mut(uc.load_manager, h)[1]
    IN [uc EXCEPT !.load_manager = ArenaSet(@, h, [me EXCEPT !.loader_status = status]),
                  !.hist[me.target].status = IF @[Len(@)] = status THEN @ ELSE Append(@, status)]

\* hist also keeps what ContentType::sniff said of the body of load l.
Sniffed(uc, l, sniffed_type) ==
    IF scope.trace THEN [uc EXCEPT !.hist[l].content = Some(sniffed_type)] ELSE uc

\* The parsed movie never stored in the record.
set_movie_dropped(uc, h, movie) == uc

\* `*old = Some(movie.clone())` on the record at h.
set_movie(uc, h, movie) ==
    LET me == get_loader_mut(uc.load_manager, h)[1]
    IN [uc EXCEPT !.load_manager = ArenaSet(@, h, [me EXCEPT !.movie = movie])]

\* A start that tells no sink.
movie_loader_start_silent(uc, h) ==
    IF get_loader_mut(uc.load_manager, h) = None THEN R(uc, "Cancelled") ELSE R(uc, "Ok")

\* Loader::movie_loader_start
movie_loader_start(uc, h) ==
    LET me == get_loader_mut(uc.load_manager, h)
    IN IF me = None THEN R(uc, "Cancelled")
       ELSE IF me[1].kind # "Movie" THEN R(uc, "panic")
       ELSE CASE me[1].event_handler = "Avm1Broadcast" -> R(Step(uc, me[1].target, "onLoadStart"), "Ok")
              [] me[1].event_handler = "Avm2LoaderInfo" -> R(Step(uc, me[1].target, "open"), "Ok")
              [] OTHER -> R(uc, "Ok")

\* Loader::movie_loader_progress
movie_loader_progress(uc, h, cur_len, total_len) ==
    LET me == get_loader_mut(uc.load_manager, h)
    IN IF me = None THEN R(uc, "Cancelled")
       ELSE IF me[1].kind # "Movie" THEN R(uc, "panic")
       ELSE CASE me[1].event_handler = "Avm1Broadcast" ->
                   R(Emit(uc, me[1].target, "onLoadProgress", cur_len, total_len), "Ok")
              [] me[1].event_handler = "Avm2LoaderInfo" ->
                   IF Fails(uc) THEN R(Tried(uc), "Avm2Error")
                   ELSE R(Emit(Tried(uc), me[1].target, "progress", cur_len, total_len), "Ok")
              [] OTHER -> R(uc, "Ok")

\* A completion that tells the sink and leaves the status as it was.
movie_loader_complete_status_kept(uc, h) ==
    LET me == get_loader_mut(uc.load_manager, h)
    IN IF me = None THEN R(uc, "Cancelled")
       ELSE CASE me[1].event_handler = "Avm1Broadcast" ->
                   R(Step(uc, me[1].target, "onLoadComplete"), "Ok")
              [] me[1].event_handler = "Avm2LoaderInfo" ->
                   R(Step(uc, me[1].target, "set_loader_stream(Swf)"), "Ok")
              [] OTHER -> R(uc, "Ok")

\* Loader::movie_loader_complete
movie_loader_complete(uc, h) ==
    LET me == get_loader_mut(uc.load_manager, h)
    IN IF me = None THEN R(uc, "Cancelled")
       ELSE IF me[1].kind # "Movie" THEN R(uc, "panic")
       ELSE LET told == CASE me[1].event_handler = "Avm1Broadcast" ->
                               Step(uc, me[1].target, "onLoadComplete")
                          [] me[1].event_handler = "Avm2LoaderInfo" ->
                               Step(uc, me[1].target, "set_loader_stream(Swf)")
                          [] OTHER -> uc
            IN R(set_loader_status(told, h, "Succeeded"), "Ok")

\* movie_loader_error without its final write of Failed.
movie_loader_error_unset(uc, h) ==
    LET me == get_loader_mut(uc.load_manager, h)
    IN IF me = None THEN R(uc, "Cancelled")
       ELSE CASE me[1].event_handler = "Avm1Broadcast" ->
                   R(Step(uc, me[1].target, "onLoadError"), "Ok")
              [] me[1].event_handler = "Avm2LoaderInfo" ->
                   IF Fails(uc) THEN R(Tried(uc), "Avm2Error")
                   ELSE R(Step(Tried(uc), me[1].target, "ioError"), "Ok")
              [] OTHER -> R(uc, "Ok")

\* movie_loader_error writing movie_loader_complete's status.
movie_loader_error_succeeded(uc, h) ==
    LET me == get_loader_mut(uc.load_manager, h)
    IN IF me = None THEN R(uc, "Cancelled")
       ELSE R(set_loader_status(uc, h, "Succeeded"), "Ok")

\* Loader::movie_loader_error
movie_loader_error(uc, h) ==
    LET me == get_loader_mut(uc.load_manager, h)
    IN IF me = None THEN R(uc, "Cancelled")
       ELSE IF me[1].kind # "Movie" THEN R(uc, "panic")
       ELSE CASE me[1].event_handler = "Avm1Broadcast" ->
                   R(set_loader_status(Step(uc, me[1].target, "onLoadError"), h, "Failed"), "Ok")
              [] me[1].event_handler = "Avm2LoaderInfo" ->
                   IF Fails(uc) THEN R(Tried(uc), "Avm2Error")
                   ELSE R(set_loader_status(Step(Tried(uc), me[1].target, "ioError"), h, "Failed"), "Ok")
              [] OTHER -> R(set_loader_status(uc, h, "Failed"), "Ok")

\* The clip made a child of the loader before its post-instantiation.
preload_finished_inserted_first(uc, h, me) ==
    LET l == me.target
        info == me.event_handler = "Avm2LoaderInfo"
        s1 == IF info THEN Step(uc, l, "set_loader_stream(NotYetLoaded)") ELSE uc
        s2 == IF info THEN Step(s1, l, "insert_at_index(0)") ELSE s1
        s3 == Step(Step(Step(s2, l, "post_instantiation"), l, "catchup_display_object_to_frame"),
                   l, "set_skip_next_enter_frame")
    IN IF info /\ Fails(s3) THEN R(Tried(s3), "Avm2Error")
       ELSE movie_loader_complete(IF info THEN Tried(s3) ELSE s3, h)

\* Loader::preload_tick, lines 647-708: the clip reported its preload finished.
preload_finished(uc, h, me) ==
    LET l == me.target
        info == me.event_handler = "Avm2LoaderInfo"
        s1 == IF info THEN Step(uc, l, "set_loader_stream(NotYetLoaded)") ELSE uc
        s2 == Step(Step(Step(s1, l, "post_instantiation"), l, "catchup_display_object_to_frame"),
                   l, "set_skip_next_enter_frame")
    IN IF info /\ Fails(s2) THEN R(Tried(s2), "Avm2Error")
       ELSE movie_loader_complete(IF info THEN Step(Tried(s2), l, "insert_at_index(0)") ELSE s2, h)

\* Loader::preload_tick: [uc, r, finished]; finished is the Ok(bool).
Loader_preload_tick(uc, h, adv) ==
    LET me == get_loader_mut(uc.load_manager, h)
    IN IF me = None THEN [uc |-> uc, r |-> "Cancelled", finished |-> FALSE]
       ELSE IF me[1].kind # "Movie" THEN [uc |-> uc, r |-> "panic", finished |-> FALSE]
       ELSE IF me[1].movie = None THEN [uc |-> uc, r |-> "Ok", finished |-> FALSE]
       ELSE IF ~IsMovieClip(uc.clips[me[1].target]) THEN [uc |-> uc, r |-> "Ok", finished |-> FALSE]
       ELSE LET l == me[1].target
                mc == preload(uc.clips[l], adv)
                did_finish == mc.loaded = mc.total
                p == movie_loader_progress([uc EXCEPT !.clips[l] = mc], h, mc.loaded, mc.total)
                c == IF p.r = "Ok" /\ did_finish THEN preload_finished(p.uc, h, me[1]) ELSE p
            IN [uc |-> c.uc, r |-> c.r, finished |-> c.r = "Ok" /\ did_finish]

\* A tick that advances every Movie record, whatever its status.
RECURSIVE preload_tick_loop_unfiltered(_, _, _, _, _)
preload_tick_loop_unfiltered(uc, handles, i, advs, acc) ==
    IF i > Len(handles) THEN [uc |-> uc, did_finish |-> acc.did_finish, parsing |-> acc.parsing]
    ELSE LET me == get_loader(uc.load_manager, handles[i])
         IN IF me = None \/ me[1].kind # "Movie"
            THEN preload_tick_loop_unfiltered(uc, handles, i + 1, advs, acc)
            ELSE LET t == Loader_preload_tick(uc, handles[i], advs[me[1].target])
                 IN preload_tick_loop_unfiltered(t.uc, handles, i + 1, advs,
                        [did_finish |-> IF t.r = "Ok" THEN acc.did_finish /\ t.finished
                                        ELSE acc.did_finish,
                         parsing |-> acc.parsing \cup {me[1].target}])

\* LoadManager::preload_tick, lines 434-446: the handles collected at line 432,
\* from the i-th on; advs[l] is what the limit lets load l's clip preload.
RECURSIVE preload_tick_loop(_, _, _, _, _)
preload_tick_loop(uc, handles, i, advs, acc) ==
    IF i > Len(handles) THEN [uc |-> uc, did_finish |-> acc.did_finish, parsing |-> acc.parsing]
    ELSE LET me == get_loader(uc.load_manager, handles[i])
             is_parsing == /\ me # None
                           /\ me[1].kind = "Movie"
                           /\ me[1].loader_status = "Parsing"
         IN IF ~is_parsing THEN preload_tick_loop(uc, handles, i + 1, advs, acc)
            ELSE LET t == Loader_preload_tick(uc, handles[i], advs[me[1].target])
                 IN preload_tick_loop(t.uc, handles, i + 1, advs,
                        [did_finish |-> IF t.r = "Ok" THEN acc.did_finish /\ t.finished
                                        ELSE acc.did_finish,
                         parsing |-> acc.parsing \cup {me[1].target}])

\* LoadManager::preload_tick: [uc, did_finish, parsing]; parsing names the
\* loads whose record was in Parsing when the loop came to it.
LoadManager_preload_tick(uc, advs) ==
    preload_tick_loop(uc, ArenaIter(uc.load_manager), 1, advs, [did_finish |-> TRUE, parsing |-> {}])

\* A sweep that takes a movie still being parsed for a finished one.
movie_clip_loaded_parsing(loader) ==
    [remove |-> loader.kind = "Movie" /\ loader.loader_status # "Pending",
     init |-> /\ loader.kind = "Movie"
              /\ loader.loader_status = "Succeeded"
              /\ loader.event_handler = "Avm1Broadcast"]

\* A sweep that queues onLoadInit for a clip whose load has not completed.
movie_clip_loaded_init_early(loader) ==
    [remove |-> loader.kind = "Movie" /\ loader.loader_status \in {"Failed", "Succeeded"},
     init |-> loader.kind = "Movie" /\ loader.event_handler = "Avm1Broadcast"]

\* A sweep that removes a Movie record in any status.
movie_clip_loaded_any_status(loader) ==
    [remove |-> loader.kind = "Movie",
     init |-> /\ loader.kind = "Movie"
              /\ loader.loader_status = "Succeeded"
              /\ loader.event_handler = "Avm1Broadcast"]

\* A sweep that queues onLoadInit whatever the sink of the load is.
movie_clip_loaded_init_any_sink(loader) ==
    [remove |-> loader.kind = "Movie" /\ loader.loader_status \in {"Failed", "Succeeded"},
     init |-> loader.kind = "Movie" /\ loader.loader_status = "Succeeded"]

\* Loader::movie_clip_loaded: [remove, init]; init says onLoadInit is queued.
movie_clip_loaded(loader) ==
    IF loader.kind # "Movie" THEN [remove |-> FALSE, init |-> FALSE]
    ELSE CASE loader.loader_status = "Pending" -> [remove |-> FALSE, init |-> FALSE]
           [] loader.loader_status = "Parsing" -> [remove |-> FALSE, init |-> FALSE]
           [] loader.loader_status = "Failed" -> [remove |-> TRUE, init |-> FALSE]
           [] loader.loader_status = "Succeeded" ->
                [remove |-> TRUE, init |-> loader.event_handler = "Avm1Broadcast"]

\* LoadManager::movie_clip_on_load, lines 308-312: the visit of each record.
RECURSIVE on_load_visit(_, _, _)
on_load_visit(uc, handles, i) ==
    IF i > Len(handles) THEN uc
    ELSE LET loader == get_loader(uc.load_manager, handles[i])[1]
         IN on_load_visit(IF movie_clip_loaded(loader).init
                          THEN Step(uc, loader.target, "queue(onLoadInit)") ELSE uc,
                          handles, i + 1)

\* LoadManager::movie_clip_on_load, lines 314-316: the removals.
RECURSIVE on_load_remove(_, _, _)
on_load_remove(lm, invalidated_loaders, i) ==
    IF i > Len(invalidated_loaders) THEN lm
    ELSE on_load_remove(ArenaRemove(lm, invalidated_loaders[i]), invalidated_loaders, i + 1)

\* LoadManager::movie_clip_on_load
movie_clip_on_load(uc) ==
    LET handles == Reverse(ArenaIter(uc.load_manager))
        lm == uc.load_manager
        invalidated_loaders == SelectSeq(handles, LAMBDA h : movie_clip_loaded(get_loader(lm, h)[1]).remove)
        visited == on_load_visit(uc, handles, 1)
    IN [visited EXCEPT !.load_manager = on_load_remove(@, invalidated_loaders, 1)]

\* The length of the bytes, whatever they sniff as.
reported_length_of_data(sniffed_type, data) == data.len

\* Loader::movie_loader_data, lines 1400 and 1419-1421: the length reported
\* to the sink is that of the data, and 0 for data of unknown type.
reported_length(sniffed_type, data) == IF sniffed_type = "Unknown" THEN 0 ELSE data.len

\* The image movie put in the clip without the decoded bitmap.
image_into_clip_movie_only(uc, l, movie) == replace_with_movie(uc, l, Some(movie))

\* Loader::movie_loader_data, lines 1524-1526: the clip is replaced with the
\* image movie and the decoded bitmap is placed at depth 1.
image_into_clip(uc, l, movie) ==
    Step([replace_with_movie(uc, l, Some(movie)) EXCEPT !.clips[l].content = "image"],
         l, "replace_at_depth(1)")

\* Loader::movie_loader_data, lines 1407-1536: the update section.
movie_loader_data_update(uc0, h, data, url, in_memory, adv) ==
    LET found == get_loader(uc0.load_manager, h)
    IN IF found = None THEN R(uc0, "Cancelled")
       ELSE IF found[1].kind # "Movie" THEN R(uc0, "panic")
       ELSE
       LET me == found[1]
           l == me.target
           uc == Sniffed(uc0, l, sniff(data))
           info == me.event_handler = "Avm2LoaderInfo"
           sniffed_type == sniff(data)
           length == reported_length(sniffed_type, data)
           Finish(u) == LET p == movie_loader_progress(u, h, length, length)
                        IN IF p.r # "Ok" THEN p ELSE movie_loader_complete(p.uc, h)
       IN CASE sniffed_type = "Swf" ->
                 IF ~data.valid THEN R(uc, "InvalidSwf")
                 ELSE LET movie == SwfMovie(url, data.len)
                          s1 == set_movie(set_loader_status(uc, h, "Parsing"), h, Some(movie))
                          s2 == IF info /\ in_memory
                                THEN Step(s1, l, "set_loader_stream(NotYetLoaded)") ELSE s1
                          p == IF info THEN movie_loader_progress(s2, h, 0, length) ELSE R(s2, "Ok")
                      IN IF p.r # "Ok" THEN p
                         ELSE LET s3 == IF IsMovieClip(p.uc.clips[l])
                                        THEN replace_with_movie(p.uc, l, Some(movie)) ELSE p.uc
                                  t == Loader_preload_tick(s3, h, adv)
                              IN R(t.uc, t.r)
            [] sniffed_type \in {"Gif", "Jpeg", "Png"} ->
                 LET p == IF info THEN movie_loader_progress(uc, h, 0, length) ELSE R(uc, "Ok")
                 IN IF p.r # "Ok" THEN p
                    ELSE IF ~data.valid THEN R(p.uc, "InvalidBitmap")
                    ELSE IF IsMovieClip(p.uc.clips[l])
                         THEN Finish(image_into_clip(p.uc, l, SwfMovie(url, length)))
                         ELSE Finish(p.uc)
            [] OTHER -> Finish(uc)

\* Loader::movie_loader_data, line 1403: the call of extract_swz and its
\* outcome, noted in the trace of the load's target.
Extraction(uc, h, outcome) ==
    LET me == get_loader(uc.load_manager, h)
    IN IF me = None THEN uc ELSE Step(uc, me[1].target, outcome)

\* Loader::movie_loader_data: an SWZ container is unwrapped (lines 1402-1406)
\* before the update section is entered.
RECURSIVE movie_loader_data(_, _, _, _, _, _)
movie_loader_data(uc, h, data, url, in_memory, adv) ==
    IF sniff(data) = "Unknown"
    THEN IF extract_swz(data) # None
         THEN movie_loader_data(Extraction(uc, h, "extract_swz(Ok)"), h, extract_swz(data)[1],
                                url, in_memory, adv)
         ELSE movie_loader_data_update(Extraction(uc, h, "extract_swz(Err)"), h, data,
                                       url, in_memory, adv)
    ELSE movie_loader_data_update(uc, h, data, url, in_memory, adv)

\* A first update section that calls movie_loader_start for loadBytes too.
movie_loader_before_started(uc, h, as3, start) ==
    LET found == get_loader(uc.load_manager, h)
    IN IF found = None THEN [uc |-> uc, r |-> "Cancelled", replacing_root_movie |-> FALSE]
       ELSE LET l == found[1].target
                clip == uc.clips[l]
                s1 == IF IsMovieClip(clip) /\ ~as3 THEN Step(uc, l, "avm1_unload") ELSE uc
                s2 == IF IsMovieClip(clip) THEN replace_with_movie(s1, l, None) ELSE s1
                s == movie_loader_start(s2, h)
            IN [uc |-> s.uc, r |-> s.r, replacing_root_movie |-> clip.kind = "root"]

\* A first update section that runs the AVM1 unload hook under either VM.
movie_loader_before_unload_always(uc, h, as3, start) ==
    LET found == get_loader(uc.load_manager, h)
    IN IF found = None THEN [uc |-> uc, r |-> "Cancelled", replacing_root_movie |-> FALSE]
       ELSE LET l == found[1].target
                clip == uc.clips[l]
                s1 == IF IsMovieClip(clip) THEN Step(uc, l, "avm1_unload") ELSE uc
                s2 == IF IsMovieClip(clip) THEN replace_with_movie(s1, l, None) ELSE s1
                s == IF start THEN movie_loader_start(s2, h) ELSE R(s2, "Ok")
            IN [uc |-> s.uc, r |-> s.r, replacing_root_movie |-> clip.kind = "root"]

\* Loader::movie_loader lines 791-813 and Loader::movie_loader_bytes lines
\* 861-884: the update section before the fetch; `start` says whether
\* movie_loader_start is called (it is not for loadBytes).
movie_loader_before(uc, h, as3, start) ==
    LET found == get_loader(uc.load_manager, h)
    IN IF found = None THEN [uc |-> uc, r |-> "Cancelled", replacing_root_movie |-> FALSE]
       ELSE IF found[1].kind # "Movie" THEN [uc |-> uc, r |-> "panic", replacing_root_movie |-> FALSE]
       ELSE LET l == found[1].target
                clip == uc.clips[l]
                s1 == IF IsMovieClip(clip) /\ ~as3 THEN Step(uc, l, "avm1_unload") ELSE uc
                s2 == IF IsMovieClip(clip) THEN replace_with_movie(s1, l, None) ELSE s1
                s == IF start THEN movie_loader_start(s2, h) ELSE R(s2, "Ok")
            IN [uc |-> s.uc, r |-> s.r, replacing_root_movie |-> clip.kind = "root"]

\* ------------------------------------------------------------ the futures
\* The future a load_* entry point returns.  pc is where it stands; result
\* is "running" until it returns.
Future(entry, handle) ==
    [entry |-> entry, handle |-> handle, pc |-> "start", result |-> "running",
     replacing_root_movie |-> FALSE, player |-> "Arc", url |-> "response.url", movie |-> None]

Clip(kind) == [kind |-> kind, content |-> "original", loaded |-> 0, total |-> 0]

Loads == 1..Len(fut)

\* Where a future holds the player lock, and where it is in update(|uc| ...).
UpdatePcs == {"update1", "update2"}

LockedPcs == UpdatePcs \cup {"fetch", "fail_msg", "rewrite", "spoof", "set_root"}

InUpdate(l) == fut[l].pc \in UpdatePcs

PlayerInUpdate == playerPc = "frame"

\* A lock that lets a second holder in.
Acquire_unguarded(l) == lock' = Some(l)

\* A guard that outlives its statement.
Release_kept(l) ==
    /\ lock = Some(l)
    /\ lock' = lock

\* player.lock().unwrap() by future l (0 is the player's own frame tick).
Acquire(l) ==
    /\ lock = None
    /\ lock' = Some(l)

\* The MutexGuard temporary is dropped at the end of the statement.
Release(l) ==
    /\ lock = Some(l)
    /\ lock' = None

\* Where a future goes when it lets go of the lock.
AfterUnlock(f) ==
    CASE f.pc = "fetch" -> IF f.entry = "movie" THEN "built" ELSE "await"
      [] f.pc = "update1" -> IF f.entry = "movie" THEN "await" ELSE "mid"
      [] f.pc = "rewrite" -> "rewritten"
      [] f.pc = "spoof" -> "spoofed"
      [] f.pc = "parse" -> "parsed"
      [] OTHER -> "done"

\* The n-th of the k fallible VM operations a section can reach may fail
\* while the run's budget of failures lasts.
FailAt(k) == {0} \cup {n \in 1..k : vmErrors < MaxVmErrors}

\* What one call of preload can decode of a body: only a movie is decoded.
Advances(data) == IF data.sniffs = "Swf" /\ data.valid THEN 1..MaxLen ELSE {1}

Failed(n, uc) == n > 0 /\ uc.vmfail = 0

\* An update section of future l ends with result r over context uc.
Commit(l, uc, r, n, pc, replacing) ==
    /\ load_manager' = uc.load_manager
    /\ clips' = uc.clips
    /\ trace' = uc.trace
    /\ hist' = uc.hist
    /\ vmErrors' = IF Failed(n, uc) THEN vmErrors + 1 ELSE vmErrors
    /\ fut' = [fut EXCEPT ![l].pc = pc, ![l].result = IF r = "Ok" THEN "running" ELSE r,
                          ![l].replacing_root_movie = replacing]

\* ------------------------------------------------------- load registration
\* What a Loader::*_loader returns for a record of its own kind: it panics
\* in `self_handle.expect("Loader not self-introduced")` or in
\* `player.upgrade().expect("Could not upgrade weak reference to player")`,
\* or builds the future over the handle and the upgraded player. stream_loader
\* returns its ready error before either.
Built(entry, handle, self_handle, upgraded) ==
    IF entry = "netstream"
    THEN [Future(entry, handle) EXCEPT !.player = IF upgraded THEN "Arc" ELSE "dropped"]
    ELSE IF self_handle = None
    THEN [Future(entry, handle) EXCEPT !.pc = "done", !.result = "panic"]
    ELSE IF ~upgraded
    THEN [Future(entry, self_handle[1]) EXCEPT !.pc = "done", !.result = "panic", !.player = "dropped"]
    ELSE Future(entry, self_handle[1])

\* The common part of the load_* entry points: add_loader, then the future
\* built over `self_handle.expect("Loader not self-introduced")`.
Register(loader_kind, entry, event_handler, clip_kind) ==
    /\ Len(fut) < scope.loads
    /\ lock = None
    /\ LET l == Len(fut) + 1
           added == add_loader(load_manager, Loader(loader_kind, l, event_handler))
           self_handle == get_loader_mut(added.lm, added.handle)[1].self_handle
       IN /\ load_manager' = added.lm
          /\ \E upgraded \in scope.player :
                fut' = Append(fut, Built(entry, added.handle, self_handle, upgraded))
          /\ clips' = Append(clips, Clip(clip_kind))
          /\ trace' = Append(trace, <<>>)
          /\ hist' = Append(hist, [status |-> IF loader_kind = "Movie" THEN <<"Pending">> ELSE <<>>,
                                    content |-> None])
    /\ UNCHANGED <<lock, playerPc, root_movie, settings, lastTick, vmErrors>>

EventHandlers == {"None", "Avm1Broadcast", "Avm2LoaderInfo"}

ClipKinds == {"root", "mc", "other"}

\* A LoaderInfo sink belongs to a display Loader, whose content is a movie
\* clip (movie_loader_complete unwraps as_movie_clip for it).
MovieTargets == {t \in [event_handler : EventHandlers, clip : ClipKinds \cap scope.clips] :
                    t.event_handler = "Avm2LoaderInfo" => t.clip # "other"}

\* The kind of record each entry point adds.
EntryKind(entry) ==
    CASE entry = "root_movie" -> "RootMovie"
      [] entry \in {"movie", "movie_bytes"} -> "Movie"
      [] entry = "form" -> "Form"
      [] entry = "load_vars" -> "LoadVars"
      [] entry = "url_loader" -> "LoadURLLoader"
      [] entry = "sound_avm1" -> "SoundAvm1"
      [] entry = "sound_avm2" -> "SoundAvm2"
      [] entry = "netstream" -> "NetStream"

load_root_movie ==
    /\ \A l \in Loads : fut[l].entry # "root_movie"
    /\ Register("RootMovie", "root_movie", "None", "none")

load_movie_into_clip ==
    \E t \in MovieTargets : Register("Movie", "movie", t.event_handler, t.clip)

load_movie_into_clip_bytes ==
    \E t \in MovieTargets : Register("Movie", "movie_bytes", t.event_handler, t.clip)

\* The target of a form load is any script object, a movie clip or not.
load_form_into_object == \E k \in {"mc", "none"} : Register("Form", "form", "None", k)

load_form_into_load_vars == Register("LoadVars", "load_vars", "None", "none")

load_data_into_url_loader == Register("LoadURLLoader", "url_loader", "None", "none")

load_sound_avm1 == Register("SoundAvm1", "sound_avm1", "None", "none")

load_sound_avm2 == Register("SoundAvm2", "sound_avm2", "None", "none")

load_netstream == Register("NetStream", "netstream", "None", "none")

\* ------------------------------------------------------- steps of a future
\* `let fetch = player.lock().unwrap().navigator().fetch(request);`
FetchBuild(l) ==
    /\ fut[l].pc = "start"
    /\ fut[l].entry \notin {"movie_bytes", "netstream"}
    /\ Acquire(l)
    /\ fut' = [fut EXCEPT ![l].pc = "fetch"]
    /\ UNCHANGED <<load_manager, clips, trace, hist, playerPc, root_movie, settings,
                   lastTick, vmErrors>>

\* The end of a statement that locked the player.
Unlock(l) ==
    /\ fut[l].pc \in LockedPcs
    /\ Release(l)
    /\ LET next == IF fut[l].result # "running" THEN "done" ELSE AfterUnlock(fut[l])
       IN fut' = [fut EXCEPT ![l].pc = next,
                             ![l].result = IF next = "done" /\ @ = "running" THEN "Ok" ELSE @]
    /\ UNCHANGED <<load_manager, clips, trace, hist, playerPc, root_movie, settings,
                   lastTick, vmErrors>>

\* Loader::movie_loader, lines 790-813.
movie_loader_update1(l) ==
    /\ fut[l].entry = "movie" /\ fut[l].pc = "built"
    /\ Acquire(l)
    /\ LET s == movie_loader_before(UpdateContext(0), fut[l].handle, is_action_script_3, TRUE)
       IN Commit(l, s.uc, s.r, 0, "update1", s.replacing_root_movie)
    /\ UNCHANGED <<playerPc, root_movie, settings, lastTick>>

\* Loader::movie_loader_bytes, lines 860-884.
movie_loader_bytes_update1(l) ==
    /\ fut[l].entry = "movie_bytes" /\ fut[l].pc = "start"
    /\ Acquire(l)
    /\ LET s == movie_loader_before(UpdateContext(0), fut[l].handle, is_action_script_3, FALSE)
       IN Commit(l, s.uc, s.r, 0, "update1", s.replacing_root_movie)
    /\ UNCHANGED <<playerPc, root_movie, settings, lastTick>>

\* A future returns without touching the player.
Return(l, r) ==
    /\ fut' = [fut EXCEPT ![l].pc = "done", ![l].result = r]
    /\ UNCHANGED <<load_manager, clips, trace, hist, lock, playerPc, root_movie,
                   settings, lastTick, vmErrors>>

\* player.lock().unwrap().set_root_movie(movie)
SetRootMovie(l, movie) ==
    /\ Acquire(l)
    /\ root_movie' = Append(root_movie, movie)
    /\ trace' = Step(UpdateContext(0), l, "set_root_movie").trace
    /\ fut' = [fut EXCEPT ![l].pc = "set_root"]
    /\ UNCHANGED <<load_manager, clips, hist, playerPc, settings, lastTick, vmErrors>>

\* Loader::movie_loader lines 816-822 and Loader::movie_loader_bytes lines
\* 886-892: the bytes replace the root movie.
ReplaceRoot(l, data, url) ==
    IF expect(sniff(data), "Swf") # "Ok" THEN Return(l, "UnexpectedData")
    ELSE IF ~data.valid THEN Return(l, "InvalidSwf")
    ELSE SetRootMovie(l, SwfMovie(url, data.len))

\* Loader::movie_loader, lines 816-822: Ok(response) if replacing_root_movie.
movie_loader_replace_root(l) ==
    /\ fut[l].entry = "movie" /\ fut[l].pc = "await" /\ fut[l].replacing_root_movie
    /\ \E data \in Bodies : ReplaceRoot(l, data, "response.url")

\* Loader::movie_loader_bytes, lines 886-892.
movie_loader_bytes_replace_root(l) ==
    /\ fut[l].entry = "movie_bytes" /\ fut[l].pc = "mid" /\ fut[l].replacing_root_movie
    /\ \E data \in Bodies : ReplaceRoot(l, data, "file:///")

\* Loader::movie_loader, lines 823-832: Ok(response).
movie_loader_fetched(l) ==
    /\ fut[l].entry = "movie" /\ fut[l].pc = "await" /\ ~fut[l].replacing_root_movie
    /\ Acquire(l)
    /\ \E data \in Bodies, n \in FailAt(3) : \E adv \in Advances(data) :
          LET d == movie_loader_data(UpdateContext(n), fut[l].handle, data, "response.url", FALSE, adv)
          IN Commit(l, d.uc, d.r, n, "update2", FALSE)
    /\ UNCHANGED <<playerPc, root_movie, settings, lastTick>>

\* Loader::movie_loader_bytes, line 894.
movie_loader_bytes_data(l) ==
    /\ fut[l].entry = "movie_bytes" /\ fut[l].pc = "mid" /\ ~fut[l].replacing_root_movie
    /\ Acquire(l)
    /\ \E data \in Bodies, n \in FailAt(3) : \E adv \in Advances(data) :
          LET d == movie_loader_data(UpdateContext(n), fut[l].handle, data, "file:///", TRUE, adv)
          IN Commit(l, d.uc, d.r, n, "update2", FALSE)
    /\ UNCHANGED <<playerPc, root_movie, settings, lastTick>>

\* Loader::movie_loader, lines 833-838: Err(e).
movie_loader_fetch_failed(l) ==
    /\ fut[l].entry = "movie" /\ fut[l].pc = "await"
    /\ Acquire(l)
    /\ \E n \in FailAt(1) :
          LET e == movie_loader_error(UpdateContext(n), fut[l].handle)
          IN Commit(l, e.uc, e.r, n, "update2", fut[l].replacing_root_movie)
    /\ UNCHANGED <<playerPc, root_movie, settings, lastTick>>

\* ------------------------------------------------------ the player's frame
\* The frame tick's update section opens with LoadManager::preload_tick.
PlayerTick ==
    /\ playerPc = "idle"
    /\ Acquire(0)
    /\ \E advs \in [Loads -> 1..MaxLen], n \in FailAt(2 * Len(fut)) :
          LET t == LoadManager_preload_tick(UpdateContext(n), advs)
          IN /\ load_manager' = t.uc.load_manager
             /\ clips' = t.uc.clips
             /\ trace' = t.uc.trace
             /\ hist' = t.uc.hist
             /\ vmErrors' = IF Failed(n, t.uc) THEN vmErrors + 1 ELSE vmErrors
             /\ lastTick' = Some([did_finish |-> t.did_finish, parsing |-> t.parsing])
    /\ playerPc' = "frame"
    /\ UNCHANGED <<fut, root_movie, settings>>

\* After the frame has run: LoadManager::movie_clip_on_load, and the end of
\* the update section.
PlayerSweep ==
    /\ playerPc = "frame"
    /\ Release(0)
    /\ LET s == movie_clip_on_load(UpdateContext(0))
       IN /\ load_manager' = s.load_manager
          /\ trace' = s.trace
    /\ playerPc' = "idle"
    /\ lastTick' = None
    /\ UNCHANGED <<fut, clips, hist, root_movie, settings, vmErrors>>

\* --------------------------------------------------------- the root movie
\* Loader::root_movie_loader, lines 735-742: the fetch failed.
root_movie_fetch_failed(l) ==
    /\ fut[l].entry = "root_movie" /\ fut[l].pc = "await"
    /\ Acquire(l)
    /\ trace' = Step(UpdateContext(0), l, "display_root_movie_download_failed_message").trace
    /\ fut' = [fut EXCEPT ![l].pc = "fail_msg", ![l].result = "FetchError"]
    /\ UNCHANGED <<load_manager, clips, hist, playerPc, root_movie, settings, lastTick, vmErrors>>

\* CompatibilityRules::rewrite_swf_url: the URL a matching rule rewrites the
\* response's URL to, or that URL itself.
rewrite_swf_url(url, matches) == IF matches THEN "http://rewritten/" ELSE url

\* The spoofed URL left out of the choice.
spoofed_or_swf_url_unspoofed(spoofed_url, swf_url) == swf_url

\* Loader::root_movie_loader, lines 750-755:
\* spoofed_url().map(|u| u.to_string()).unwrap_or(swf_url)
spoofed_or_swf_url(spoofed_url, swf_url) ==
    IF spoofed_url = None THEN swf_url ELSE spoofed_url[1]

\* SwfMovie::append_parameters
append_parameters(movie, parameters) == [movie EXCEPT !.parameters = @ \o parameters]

\* The parameter lists handed to load_root_movie.
Parameters == {[i \in 1..n |-> i] : n \in 0..MaxLen}

\* Loader::root_movie_loader, lines 745-749: compatibility_rules().rewrite_swf_url.
root_movie_rewrite_url(l) ==
    /\ fut[l].entry = "root_movie" /\ fut[l].pc = "await"
    /\ Acquire(l)
    /\ \E matches \in BOOLEAN :
          /\ fut' = [fut EXCEPT ![l].pc = "rewrite",
                                ![l].url = rewrite_swf_url("response.url", matches)]
          /\ trace' = Step(UpdateContext(0), l, IF matches THEN "rewrite_swf_url: rewritten"
                                                ELSE "rewrite_swf_url: unchanged").trace
    /\ UNCHANGED <<load_manager, clips, hist, playerPc, root_movie, settings,
                   lastTick, vmErrors>>

\* Loader::root_movie_loader, lines 750-755: spoofed_url().
root_movie_spoofed_url(l) ==
    /\ fut[l].entry = "root_movie" /\ fut[l].pc = "rewritten"
    /\ Acquire(l)
    /\ \E spoofed_url \in {None, Some("http://spoof/")} :
          /\ fut' = [fut EXCEPT ![l].pc = "spoof",
                                ![l].url = spoofed_or_swf_url(spoofed_url, fut[l].url)]
          /\ trace' = Step(UpdateContext(0), l, IF spoofed_url = None THEN "spoofed_url: None"
                                                ELSE "spoofed_url: Some").trace
    /\ UNCHANGED <<load_manager, clips, hist, playerPc, root_movie, settings,
                   lastTick, vmErrors>>

\* Loader::root_movie_loader, lines 757-759: SwfMovie::from_data, on_metadata,
\* append_parameters.
root_movie_parse(l) ==
    /\ fut[l].entry = "root_movie" /\ fut[l].pc = "spoofed"
    /\ \E data \in Bodies, parameters \in Parameters :
          IF data.swz = 0 /\ data.sniffs = "Swf" /\ data.valid
          THEN /\ fut' = [fut EXCEPT ![l].pc = "parsed",
                                     ![l].movie = Some(append_parameters(
                                                          SwfMovie(fut[l].url, data.len), parameters))]
               /\ trace' = Step(Emit(UpdateContext(0), l, "parameters", Len(parameters), 0),
                                l, "on_metadata").trace
               /\ UNCHANGED <<load_manager, clips, hist, lock, playerPc, root_movie, settings,
                              lastTick, vmErrors>>
          ELSE Return(l, "InvalidSwf")

\* Loader::root_movie_loader, line 760: set_root_movie.
root_movie_set(l) ==
    /\ fut[l].entry = "root_movie" /\ fut[l].pc = "parsed"
    /\ SetRootMovie(l, fut[l].movie[1])

\* ------------------------------------------------------ the non-movie loads
\* What `fetch.await` resolved to, and the length of the body, noted in the
\* trace of the load's target.
Resolved(uc, l, ok, length) == Emit(uc, l, IF ok THEN "Ok(response)" ELSE "Err", length, 0)

\* Loader::form_loader, line 915: `fetch.await?` on a failed fetch.
form_loader_fetch_failed(l) ==
    /\ fut[l].entry = "form" /\ fut[l].pc = "await"
    /\ Return(l, "FetchError")

\* The update section firing onData before it sets the properties.
form_loader_section_data_first(uc, h, pairs) ==
    LET loader == get_loader(uc.load_manager, h)
    IN IF loader = None THEN R(uc, "Cancelled")
       ELSE IF loader[1].kind # "Form" THEN R(uc, "NotFormLoader")
       ELSE LET l == loader[1].target
                u == Resolved(uc, l, TRUE, pairs)
                s0 == IF uc.clips[l].kind = "mc"
                      THEN Step(Step(u, l, "queue(onData)"), l, "event_dispatch(Data)") ELSE u
            IN R([s0 EXCEPT !.trace[l] = IF scope.trace
                                          THEN @ \o [i \in 1..pairs |->
                                                   [name |-> "set(k, v)", cur |-> i, total |-> pairs]]
                                          ELSE @,
                            !.vmfail = 0], "Ok")

\* Loader::form_loader, lines 918-954, over a body of `pairs` key=value pairs.
form_loader_section(uc, h, pairs) ==
    LET loader == get_loader(uc.load_manager, h)
    IN IF loader = None THEN R(uc, "Cancelled")
       ELSE IF loader[1].kind # "Form" THEN R(uc, "NotFormLoader")
       ELSE LET l == loader[1].target
                failing == uc.vmfail \in 1..pairs
                set == IF failing THEN uc.vmfail - 1 ELSE pairs
                s1 == [Resolved(uc, l, TRUE, pairs)
                          EXCEPT !.trace[l] = IF scope.trace
                                               THEN @ \o [i \in 1..set |->
                                                        [name |-> "set(k, v)", cur |-> i, total |-> pairs]]
                                               ELSE @,
                                 !.vmfail = IF failing \/ @ <= pairs THEN 0 ELSE @ - pairs]
            IN IF failing THEN R(s1, "Avm1Error")
               ELSE IF uc.clips[l].kind = "mc"
                    THEN R(Step(Step(s1, l, "queue(onData)"), l, "event_dispatch(Data)"), "Ok")
                    ELSE R(s1, "Ok")

form_loader_update(l) ==
    /\ fut[l].entry = "form" /\ fut[l].pc = "await"
    /\ Acquire(l)
    /\ \E pairs \in 0..MaxLen, n \in FailAt(MaxLen) :
          LET s == form_loader_section(UpdateContext(n), fut[l].handle, pairs)
          IN Commit(l, s.uc, s.r, n, "update2", FALSE)
    /\ UNCHANGED <<playerPc, root_movie, settings, lastTick>>

\* The update section calling onData before onHTTPStatus.
load_vars_loader_section_data_first(uc, h, ok, length) ==
    LET loader == get_loader(uc.load_manager, h)
    IN IF loader = None THEN R(uc, "Cancelled")
       ELSE IF loader[1].kind # "LoadVars" THEN R(uc, "NotLoadVarsLoader")
       ELSE LET l == loader[1].target
                u == Resolved(uc, l, ok, length)
            IN IF ~ok
               THEN R(Emit(Emit(u, l, "onData(Undefined)", 0, 0), l, "onHTTPStatus", 404, 0), "Ok")
               ELSE LET s1 == Emit(u, l, "set(_bytesTotal)", length, 0)
                        s2 == IF length > 0 THEN Emit(s1, l, "set(_bytesLoaded)", length, 0) ELSE s1
                        s3 == Emit(s2, l, IF length = 0 THEN "onData(Undefined)" ELSE "onData(text)",
                                   length, 0)
                    IN R(Emit(s3, l, "onHTTPStatus", 200, 0), "Ok")

\* Loader::load_vars_loader, lines 981-1049; ok says the fetch succeeded,
\* length is the body's.
load_vars_loader_section(uc, h, ok, length) ==
    LET loader == get_loader(uc.load_manager, h)
    IN IF loader = None THEN R(uc, "Cancelled")
       ELSE IF loader[1].kind # "LoadVars" THEN R(uc, "NotLoadVarsLoader")
       ELSE LET l == loader[1].target
                u == Resolved(uc, l, ok, length)
            IN IF ~ok
               THEN R(Emit(Emit(u, l, "onHTTPStatus", 404, 0), l, "onData(Undefined)", 0, 0), "Ok")
               ELSE IF Fails(u) THEN R(Tried(u), "Avm1Error")
               ELSE LET s1 == Emit(Tried(u), l, "set(_bytesTotal)", length, 0)
                    IN IF length > 0 /\ Fails(s1) THEN R(Tried(s1), "Avm1Error")
                       ELSE LET s2 == IF length > 0
                                      THEN Emit(Tried(s1), l, "set(_bytesLoaded)", length, 0) ELSE s1
                                s3 == Emit(s2, l, "onHTTPStatus", 200, 0)
                            IN R(Emit(s3, l, IF length = 0 THEN "onData(Undefined)" ELSE "onData(text)",
                                      length, 0), "Ok")

load_vars_loader_update(l) ==
    /\ fut[l].entry = "load_vars" /\ fut[l].pc = "await"
    /\ Acquire(l)
    /\ \E ok \in BOOLEAN, length \in 0..MaxLen, n \in FailAt(2) :
          LET s == load_vars_loader_section(UpdateContext(n), fut[l].handle, ok, IF ok THEN length ELSE 0)
          IN Commit(l, s.uc, s.r, n, "update2", FALSE)
    /\ UNCHANGED <<playerPc, root_movie, settings, lastTick>>

DataFormats == {"Binary", "Text", "Variables"}

\* set_data, lines 1085-1113: what the `data` property is set to.
set_data(uc, l, length, data_format) ==
    Emit(uc, l, CASE data_format = "Binary" -> "data = ByteArray"
                  [] data_format = "Text" -> "data = String"
                  [] OTHER -> "data = Undefined", length, 0)

\* Loader::load_url_loader, lines 1058 and 1072: the data_format the future
\* was built with and the response its fetch resolved to, noted in the trace
\* of the load's target.
Fetched(uc, l, ok, length, data_format) ==
    Emit(Step(uc, l, data_format), l, IF ok THEN "Ok(response)" ELSE "Err", length, 0)

\* The update section dispatching ioError before it clears data.
load_url_loader_section_error_first(uc, h, ok, length, data_format) ==
    LET loader == get_loader(uc.load_manager, h)
    IN IF loader = None \/ loader[1].kind # "LoadURLLoader" THEN R(uc, "panic")
       ELSE LET l == loader[1].target
                u == Fetched(uc, l, ok, length, data_format)
            IN IF ok
               THEN R(Step(set_data(Step(u, l, "open"), l, length, data_format), l, "complete"), "Ok")
               ELSE IF Fails(u) THEN R(Tried(set_data(u, l, 0, data_format)), "Avm2Error")
                    ELSE R(set_data(Emit(Tried(u), l, "ioError", 2032, 0), l, 0, data_format), "Ok")

\* The update section dispatching complete before it sets data.
load_url_loader_section_complete_first(uc, h, ok, length, data_format) ==
    LET loader == get_loader(uc.load_manager, h)
    IN IF loader = None \/ loader[1].kind # "LoadURLLoader" THEN R(uc, "panic")
       ELSE LET l == loader[1].target
                u == Fetched(uc, l, ok, length, data_format)
            IN R(set_data(Step(Step(u, l, "open"), l, "complete"), l, length, data_format), "Ok")

\* Loader::load_url_loader, lines 1075-1164.
load_url_loader_section(uc, h, ok, length, data_format) ==
    LET loader == get_loader(uc.load_manager, h)
    IN IF loader = None \/ loader[1].kind # "LoadURLLoader" THEN R(uc, "panic")
       ELSE LET l == loader[1].target
                u == Fetched(uc, l, ok, length, data_format)
            IN IF ok
               THEN R(Step(set_data(Step(u, l, "open"), l, length, data_format), l, "complete"), "Ok")
               ELSE LET s1 == set_data(u, l, 0, data_format)
                    IN IF Fails(s1) THEN R(Tried(s1), "Avm2Error")
                       ELSE R(Emit(Tried(s1), l, "ioError", 2032, 0), "Ok")

load_url_loader_update(l) ==
    /\ fut[l].entry = "url_loader" /\ fut[l].pc = "await"
    /\ Acquire(l)
    /\ \E ok \in BOOLEAN, length \in 0..MaxLen, data_format \in DataFormats, n \in FailAt(1) :
          LET s == load_url_loader_section(UpdateContext(n), fut[l].handle, ok, IF ok THEN length ELSE 0,
                                           data_format)
          IN Commit(l, s.uc, s.r, n, "update2", FALSE)
    /\ UNCHANGED <<playerPc, root_movie, settings, lastTick>>

\* Loader::sound_loader_avm1, lines 1191-1227; mp3 says register_mp3 accepts
\* the body.
\* uc.audio.register_mp3(&body), called on the body of a response.
Registered(uc, l, ok, mp3) ==
    IF ok THEN Step(uc, l, IF mp3 THEN "register_mp3(Ok)" ELSE "register_mp3(Err)") ELSE uc

sound_loader_avm1_section(uc, h, ok, mp3, is_streaming) ==
    LET loader == get_loader(uc.load_manager, h)
    IN IF loader = None THEN R(uc, "Cancelled")
       ELSE IF loader[1].kind # "SoundAvm1" THEN R(uc, "NotSoundLoader")
       ELSE LET l == loader[1].target
                success == ok /\ mp3
                u == Registered(Resolved(IF is_streaming THEN Step(uc, l, "is_streaming") ELSE uc,
                                         l, ok, 0), l, ok, mp3)
                s1 == IF success THEN Step(Step(u, l, "set_sound"), l, "set_duration") ELSE u
                s2 == Step(s1, l, IF success THEN "onLoad(true)" ELSE "onLoad(false)")
            IN IF ~is_streaming THEN R(s2, "Ok")
               ELSE IF Fails(s2) THEN R(Tried(s2), "Avm1Error")
               ELSE R(Step(Tried(s2), l, "start_sound"), "Ok")

sound_loader_avm1_update(l) ==
    /\ fut[l].entry = "sound_avm1" /\ fut[l].pc = "await"
    /\ Acquire(l)
    /\ \E ok \in BOOLEAN, mp3 \in BOOLEAN, is_streaming \in BOOLEAN, n \in FailAt(1) :
          LET s == sound_loader_avm1_section(UpdateContext(n), fut[l].handle, ok, mp3, is_streaming)
          IN Commit(l, s.uc, s.r, n, "update2", FALSE)
    /\ UNCHANGED <<playerPc, root_movie, settings, lastTick>>

\* Loader::sound_loader_avm2, lines 1252-1305.
sound_loader_avm2_section(uc, h, ok, mp3) ==
    LET loader == get_loader(uc.load_manager, h)
    IN IF loader = None THEN R(uc, "Cancelled")
       ELSE IF loader[1].kind # "SoundAvm2" THEN R(uc, "NotSoundLoader")
       ELSE LET l == loader[1].target
                u == Registered(Resolved(uc, l, ok, 0), l, ok, mp3)
            IN IF ok
               THEN IF ~mp3 THEN R(u, "InvalidSound")
                    ELSE LET s1 == IF Fails(u) THEN Tried(u) ELSE Step(Tried(u), l, "set_sound")
                         IN R(Step(Step(s1, l, "open"), l, "complete"), "Ok")
               ELSE IF Fails(u) THEN R(Tried(u), "Avm2Error")
                    ELSE R(Emit(Tried(u), l, "ioError", 2032, 0), "Ok")

sound_loader_avm2_update(l) ==
    /\ fut[l].entry = "sound_avm2" /\ fut[l].pc = "await"
    /\ Acquire(l)
    /\ \E ok \in BOOLEAN, mp3 \in BOOLEAN, n \in FailAt(1) :
          LET s == sound_loader_avm2_section(UpdateContext(n), fut[l].handle, ok, mp3)
          IN Commit(l, s.uc, s.r, n, "update2", FALSE)
    /\ UNCHANGED <<playerPc, root_movie, settings, lastTick>>

\* Loader::stream_loader, lines 1314-1319: self is a NetStream record, never
\* the SoundAvm2 the match asks for, so the future is the ready error.
stream_loader(l) ==
    /\ fut[l].entry = "netstream" /\ fut[l].pc = "start"
    /\ Return(l, "NotLoadDataLoader")

\* ------------------------------------------------------- the specification
\* The state after Player construction: LoadManager::new(), no load yet.
Start ==
    /\ load_manager = ArenaNew
    /\ fut = <<>>
    /\ clips = <<>>
    /\ trace = <<>>
    /\ hist = <<>>
    /\ lock = None
    /\ playerPc = "idle"
    /\ root_movie = <<>>
    /\ is_action_script_3 \in BOOLEAN
    /\ lastTick = None
    /\ vmErrors = 0
    /\ qname = None

\* A player whose loads are followed effect by effect.
Init ==
    /\ Start
    /\ scope = [loads |-> MaxTraced, trace |-> TRUE, clips |-> {"root", "mc", "other"},
                player |-> {TRUE}]

\* The same, for callers that may pass a player reference that no longer
\* upgrades.
InitTeardown ==
    /\ Start
    /\ scope = [loads |-> MaxTraced, trace |-> TRUE, clips |-> {"root", "mc", "other"},
                player |-> BOOLEAN]

\* A player running several loads at once; their effects go unrecorded.
InitMany ==
    /\ Start
    /\ scope = [loads |-> MaxLoads, trace |-> FALSE, clips |-> {"mc"}, player |-> {TRUE}]

Next ==
    \/ load_root_movie
    \/ load_movie_into_clip
    \/ load_movie_into_clip_bytes
    \/ load_form_into_object
    \/ load_form_into_load_vars
    \/ load_data_into_url_loader
    \/ load_sound_avm1
    \/ load_sound_avm2
    \/ load_netstream
    \/ \E l \in Loads : FetchBuild(l)
    \/ \E l \in Loads : Unlock(l)
    \/ \E l \in Loads : movie_loader_update1(l)
    \/ \E l \in Loads : movie_loader_bytes_update1(l)
    \/ \E l \in Loads : movie_loader_replace_root(l)
    \/ \E l \in Loads : movie_loader_bytes_replace_root(l)
    \/ \E l \in Loads : movie_loader_fetched(l)
    \/ \E l \in Loads : movie_loader_bytes_data(l)
    \/ \E l \in Loads : movie_loader_fetch_failed(l)
    \/ \E l \in Loads : root_movie_fetch_failed(l)
    \/ \E l \in Loads : root_movie_rewrite_url(l)
    \/ \E l \in Loads : root_movie_spoofed_url(l)
    \/ \E l \in Loads : root_movie_parse(l)
    \/ \E l \in Loads : root_movie_set(l)
    \/ \E l \in Loads : form_loader_fetch_failed(l)
    \/ \E l \in Loads : form_loader_update(l)
    \/ \E l \in Loads : load_vars_loader_update(l)
    \/ \E l \in Loads : load_url_loader_update(l)
    \/ \E l \in Loads : sound_loader_avm1_update(l)
    \/ \E l \in Loads : sound_loader_avm2_update(l)
    \/ \E l \in Loads : stream_loader(l)
    \/ PlayerTick
    \/ PlayerSweep

Spec == Init /\ [][Next]_vars

\* The scripts of a player running several loads load movies into clips by
\* URL and variables into LoadVars objects.
NextMany ==
    \/ load_movie_into_clip
    \/ load_form_into_load_vars
    \/ \E l \in Loads : FetchBuild(l)
    \/ \E l \in Loads : Unlock(l)
    \/ \E l \in Loads : movie_loader_update1(l)
    \/ \E l \in Loads : movie_loader_fetched(l)
    \/ \E l \in Loads : movie_loader_fetch_failed(l)
    \/ \E l \in Loads : load_vars_loader_update(l)
    \/ PlayerTick
    \/ PlayerSweep

SpecMany == InitMany /\ [][NextMany]_vars

\* Cancellation: the record of load l leaves the table while its future has
\* yet to return.  No operation of LoadManager does this to a load in
\* flight; it stands for "removed by any pruning path".
record_removed(l) ==
    /\ lock = None
    /\ fut[l].pc # "done"
    /\ get_loader(load_manager, fut[l].handle) # None
    /\ load_manager' = ArenaRemove(load_manager, fut[l].handle)
    /\ UNCHANGED <<fut, clips, trace, hist, lock, playerPc, root_movie, settings,
                   lastTick, vmErrors>>

NextCancel ==
    \/ Next
    \/ \E l \in Loads : record_removed(l)

SpecCancel == Init /\ [][NextCancel]_vars

SpecTeardown == InitTeardown /\ [][Next]_vars

\* An inconsistent table: the record of load l is replaced, at its handle,
\* by a record of another kind while its future has yet to return.  No
\* operation of LoadManager does this; it stands for "the table and the
\* future were constructed inconsistently".
record_replaced(l) ==
    /\ lock = None
    /\ fut[l].pc # "done"
    /\ get_loader(load_manager, fut[l].handle) # None
    /\ LET mine == get_loader(load_manager, fut[l].handle)[1]
           foreign == [Loader(IF mine.kind = "Movie" THEN "Form" ELSE "Movie", l, "None")
                          EXCEPT !.self_handle = Some(fut[l].handle)]
       IN /\ mine.kind = EntryKind(fut[l].entry)
          /\ load_manager' = ArenaSet(load_manager, fut[l].handle, foreign)
    /\ UNCHANGED <<fut, clips, trace, hist, lock, playerPc, root_movie, settings,
                   lastTick, vmErrors>>

NextForeign ==
    \/ Next
    \/ \E l \in Loads : record_replaced(l)

SpecForeign == Init /\ [][NextForeign]_vars

\* ---------------------------------------------------------------- properties
IsPrefix(s, t) == Len(s) <= Len(t) /\ \A i \in 1..Len(s) : s[i] = t[i]

\* The loads of the movie entry points, and the record of a load.
MovieLoads == {l \in Loads : fut[l].entry \in {"movie", "movie_bytes"}}

Record(l) == get_loader(load_manager, fut[l].handle)

\* The records in the table.
Table == {ArenaIter(load_manager)[i] : i \in 1..Len(ArenaIter(load_manager))}

MovieRecords == {h \in Table : get_loader(load_manager, h)[1].kind = "Movie"}

\* C1 (as the code has it): the statuses a Movie load takes are a prefix of
\* Pending, Parsing, Succeeded when its body is an SWF; they are Pending,
\* Succeeded when the body is a JPEG, PNG, GIF or of unknown type; and they
\* are Pending, Failed when the fetch failed and there is no body.
StatusSequence ==
    \A l \in MovieLoads :
        LET h == hist[l]
        IN \/ /\ IsPrefix(h.status, <<"Pending", "Parsing", "Succeeded">>)
              /\ Len(h.status) >= 2 => h.content = Some("Swf")
           \/ /\ h.status = <<"Pending", "Succeeded">>
              /\ h.content \in {Some(t) : t \in ContentTypes \ {"Swf"}}
           \/ /\ h.status = <<"Pending", "Failed">>
              /\ h.content = None

\* An SWF load that went through all three statuses.
StatusSequenceReached ==
    \E l \in MovieLoads : hist[l].status = <<"Pending", "Parsing", "Succeeded">>

\* C1 as stated: for every content type the statuses are a prefix of Pending,
\* Parsing, Succeeded or of Pending, Failed.
StatusSequenceAsStated ==
    \A l \in MovieLoads :
        \/ IsPrefix(hist[l].status, <<"Pending", "Parsing", "Succeeded">>)
        \/ IsPrefix(hist[l].status, <<"Pending", "Failed">>)

\* C2 (as the code has it): a Movie record holds a parsed movie exactly when
\* its status is Parsing, or Succeeded after an SWF body; it holds none when
\* Pending or Failed, and none when Succeeded after a body that is no SWF.
ParsedMovie ==
    \A h \in MovieRecords :
        LET me == get_loader(load_manager, h)[1]
        IN me.movie # None <=>
              \/ me.loader_status = "Parsing"
              \/ me.loader_status = "Succeeded" /\ hist[me.target].content = Some("Swf")

\* A record that succeeded with its parsed movie.
ParsedMovieReached ==
    \E h \in MovieRecords :
        LET me == get_loader(load_manager, h)[1]
        IN me.loader_status = "Succeeded" /\ me.movie # None

\* C2 as stated: the parsed movie is Some exactly when the status is Parsing
\* or Succeeded.
ParsedMovieAsStated ==
    \A h \in MovieRecords :
        LET me == get_loader(load_manager, h)[1]
        IN me.movie # None <=> me.loader_status \in {"Parsing", "Succeeded"}

\* C4: at most one update section is in progress at any time, the frame's
\* or any load future's, and whoever is in one holds the player lock.
OneUpdateSection ==
    /\ Cardinality({l \in Loads : InUpdate(l)}) + (IF PlayerInUpdate THEN 1 ELSE 0) <= 1
    /\ \A l \in Loads : InUpdate(l) => lock = Some(l)
    /\ PlayerInUpdate => lock = Some(0)

\* One future is in its update section while another, its fetch answered,
\* has yet to enter its own.
OneUpdateSectionReached ==
    \E l, m \in Loads : l # m /\ InUpdate(l) /\ fut[m].pc = "await"

\* C5: a future suspended on its fetch does not hold the player lock, and
\* whoever holds the lock can end its statement and release it, so frames
\* and other futures are never locked out.
NoLockAcrossAwait ==
    /\ \A l \in Loads : fut[l].pc = "await" => lock # Some(l)
    /\ \A l \in Loads : lock = Some(l) => ENABLED Unlock(l)
    /\ lock = Some(0) => ENABLED PlayerSweep

\* The player runs a frame while a future is suspended on its fetch.
NoLockAcrossAwaitReached ==
    \E l \in Loads : fut[l].pc = "await" /\ PlayerInUpdate

\* C8: every record in the table carries its own key in self_handle.
SelfHandleIsKey ==
    \A h \in Table : get_loader(load_manager, h)[1].self_handle = Some(h)

\* A record registered after an earlier one was removed: its key carries a
\* generation of its own.
SelfHandleIsKeyReached ==
    \E h \in Table : h.generation > 0 /\ get_loader(load_manager, h)[1].self_handle = Some(h)

\* C3 as stated, for the loads of load_data_into_url_loader: when the record
\* of the load is absent as its future re-enters after the fetch, the future
\* ends with Error::Cancelled, and the step emits nothing and changes
\* neither the table, the clips nor the root movie.
CancelledWhenAbsent ==
    [][\A l \in Loads :
          (/\ fut[l].entry = "url_loader"
           /\ Record(l) = None
           /\ fut[l].pc = "await"
           /\ fut'[l].pc # "await")
              => /\ fut'[l].result = "Cancelled"
                 /\ trace' = trace
                 /\ load_manager' = load_manager
                 /\ clips' = clips
                 /\ root_movie' = root_movie]_vars

\* A future about to re-enter after its fetch with its record gone.
CancelledWhenAbsentReached ==
    \E l \in Loads : fut[l].entry = "url_loader" /\ Record(l) = None /\ fut[l].pc = "await"

\* C6 as stated, for the loads whose callback ran to its end: the record of
\* a non-Movie load is out of the table once the future has returned.
NonMovieEntries == {"form", "load_vars", "url_loader", "sound_avm1", "sound_avm2", "netstream"}

NonMovieRecordDropped ==
    \A l \in Loads :
        (fut[l].entry \in NonMovieEntries /\ fut[l].pc = "done" /\ fut[l].result = "Ok")
            => Record(l) = None

\* The future of a non-Movie load has returned Ok.
NonMovieRecordDroppedReached ==
    \E l \in Loads : fut[l].entry \in NonMovieEntries /\ fut[l].pc = "done" /\ fut[l].result = "Ok"

\* C7: the sweep removes exactly the Movie records that are Failed or
\* Succeeded when it is called; every other record is in the table after it,
\* unchanged.
TerminalMovies ==
    {h \in MovieRecords : get_loader(load_manager, h)[1].loader_status \in {"Failed", "Succeeded"}}

SweepRemovesTerminalMovies ==
    [][(playerPc = "frame" /\ playerPc' = "idle")
          => /\ Table' = Table \ TerminalMovies
             /\ \A h \in Table' : get_loader(load_manager', h) = get_loader(load_manager, h)]_vars

\* After a sweep that removed a record, a record registered before it is
\* still in the table.
SweepRemovesTerminalMoviesReached ==
    /\ playerPc = "idle"
    /\ load_manager.generation > 0
    /\ \E h \in Table : h.generation = 0

\* C9: a handle whose record was removed resolves to nothing ever after,
\* also when a later registration takes the slot; a handle that resolves,
\* resolves to the record of the load it was issued to.
StaleHandleStaysDead ==
    /\ [](\A l \in Loads : Record(l) # None => Record(l)[1].target = l)
    /\ [][\A l \in Loads : Record(l) = None => Record(l)' = None]_vars

\* The slot of a removed record holds the record of a later load.
StaleHandleStaysDeadReached ==
    \E l, m \in Loads :
        /\ Record(l) = None
        /\ Record(m) # None
        /\ fut[l].handle.index = fut[m].handle.index

\* C10 as stated: LoadManager::preload_tick returns true exactly when every
\* Movie that was in Parsing when visited finished in this tick; an error
\* from advancing one makes it false.
PreloadTickAllFinished ==
    lastTick # None =>
        (lastTick[1].did_finish <=>
            \A l \in lastTick[1].parsing : Record(l)[1].loader_status = "Succeeded")

\* A tick that visited a Movie in Parsing.
PreloadTickAllFinishedReached ==
    lastTick # None /\ lastTick[1].parsing # {}

\* C11: a preload tick leaves alone every record that is not a Movie in
\* Parsing (a Movie in Succeeded, Pending or Failed, and any other kind):
\* the record keeps its fields, its clip is not preloaded and nothing is
\* emitted for it.
ParsingMovies ==
    {h \in MovieRecords : get_loader(load_manager, h)[1].loader_status = "Parsing"}

TickAdvancesOnlyParsing ==
    [][(playerPc = "idle" /\ playerPc' = "frame")
          => \A h \in Table \ ParsingMovies :
                LET l == get_loader(load_manager, h)[1].target
                IN /\ get_loader(load_manager', h) = get_loader(load_manager, h)
                   /\ clips'[l] = clips[l]
                   /\ trace'[l] = trace[l]
                   /\ hist'[l] = hist[l]]_vars

\* A tick has just run over a Movie record that had succeeded before it.
TickAdvancesOnlyParsingReached ==
    /\ lastTick # None
    /\ \E h \in MovieRecords :
          LET me == get_loader(load_manager, h)[1]
          IN /\ me.loader_status = "Succeeded"
             /\ me.movie # None
             /\ me.target \notin lastTick[1].parsing

\* What a load has delivered to its LoaderInfo object, in order.
IsInfoEvent(e) == e.name \in {"open", "progress", "ioError", "set_loader_stream(Swf)"}

InfoEvents(l) == SelectSeq(trace[l], IsInfoEvent)

IsProgress(e) == e.name = "progress"

ProgressCount(tr) == Len(SelectSeq(tr, IsProgress))

\* A URL load with a LoaderInfo sink whose SWF body was taken without error.
InfoSwfLoads ==
    {l \in Loads : /\ fut[l].entry = "movie"
                   /\ fut[l].result \in {"running", "Ok"}
                   /\ hist[l].content = Some("Swf")
                   /\ Record(l) # None
                   /\ Record(l)[1].event_handler = "Avm2LoaderInfo"}

\* C12: a successful SWF load by URL with a LoaderInfo sink delivers open,
\* then progress(0, N), then one progress(cur, N) for each preload tick, the
\* last of them progress(N, N), then the loaded LoaderStream, with which the
\* status is Succeeded; it delivers no ioError and nothing after the stream.
InfoObjectOrder ==
    /\ [](\A l \in InfoSwfLoads :
            Record(l)[1].loader_status = "Succeeded" =>
               LET ev == InfoEvents(l)
                   n == Len(ev)
                   N == clips[l].total
               IN /\ n >= 4
                  /\ ev[1] = [name |-> "open", cur |-> 0, total |-> 0]
                  /\ ev[2] = [name |-> "progress", cur |-> 0, total |-> N]
                  /\ \A i \in 3..(n - 1) :
                        /\ ev[i].name = "progress"
                        /\ ev[i].total = N
                        /\ ev[i].cur \in 1..N
                        /\ i > 3 => ev[i].cur >= ev[i - 1].cur
                  /\ ev[n - 1].cur = N
                  /\ ev[n] = [name |-> "set_loader_stream(Swf)", cur |-> 0, total |-> 0])
    /\ [][\A l \in InfoSwfLoads :
             \/ /\ playerPc = "idle" /\ playerPc' = "frame"
                /\ Record(l)[1].loader_status = "Parsing"
                /\ vmErrors' = vmErrors
                /\ ProgressCount(trace'[l]) # ProgressCount(trace[l]) + 1
             \/ /\ Record(l)[1].loader_status = "Succeeded"
                /\ trace'[l] # trace[l]
             => FALSE]_vars

\* Such a load has succeeded after the data callback and a frame's tick
\* each preloaded a part of it.
InfoObjectOrderReached ==
    \E l \in InfoSwfLoads :
        /\ Record(l)[1].loader_status = "Succeeded"
        /\ ProgressCount(trace[l]) = 3
        /\ lastTick # None

\* What a load has broadcast to its AVM1 broadcaster, in order.
IsBroadcast(e) ==
    e.name \in {"onLoadStart", "onLoadProgress", "onLoadComplete", "onLoadError", "queue(onLoadInit)"}

Broadcasts(l) == SelectSeq(trace[l], IsBroadcast)

IsOnLoadInit(e) == e.name = "queue(onLoadInit)"

\* onLoadStart, any number of onLoadProgress, onLoadComplete.
StartProgressComplete(ev) ==
    /\ Len(ev) >= 2
    /\ ev[1].name = "onLoadStart"
    /\ \A i \in 2..(Len(ev) - 1) : ev[i].name = "onLoadProgress"
    /\ ev[Len(ev)].name = "onLoadComplete"

\* C13: a successful load by URL with an AVM1 broadcaster sink broadcasts one
\* onLoadStart, then any number of onLoadProgress, then one onLoadComplete;
\* onLoadInit is queued after that and by a sweep alone.
LegacyOrder ==
    /\ [](\A l \in Loads :
            /\ (/\ fut[l].entry = "movie"
                /\ Record(l) # None
                /\ Record(l)[1].event_handler = "Avm1Broadcast"
                /\ Record(l)[1].loader_status = "Succeeded")
                   => StartProgressComplete(Broadcasts(l))
            /\ (fut[l].entry = "movie" /\ \E i \in 1..Len(trace[l]) : IsOnLoadInit(trace[l][i]))
                   => LET ev == Broadcasts(l)
                      IN /\ IsOnLoadInit(ev[Len(ev)])
                         /\ StartProgressComplete(SubSeq(ev, 1, Len(ev) - 1)))
    /\ [][\A l \in Loads :
             Len(SelectSeq(trace'[l], IsOnLoadInit)) # Len(SelectSeq(trace[l], IsOnLoadInit))
                => (playerPc = "frame" /\ playerPc' = "idle")]_vars

\* The sweep has queued onLoadInit for a load that broadcast its progress.
LegacyOrderReached ==
    \E l \in Loads :
        /\ fut[l].entry = "movie"
        /\ Len(Broadcasts(l)) >= 4
        /\ IsOnLoadInit(trace[l][Len(trace[l])])

IsStartEvent(e) == e.name \in {"onLoadStart", "open"}

\* C14: a load registered by load_movie_into_clip_bytes never emits a start
\* event (onLoadStart, open), whatever its bytes are, and the movie made of
\* its bytes has the source URL file:///.
BytesLoadNoStart ==
    /\ \A l \in Loads :
          fut[l].entry = "movie_bytes" =>
             /\ SelectSeq(trace[l], IsStartEvent) = <<>>
             /\ (Record(l) # None /\ Record(l)[1].movie # None)
                    => Record(l)[1].movie[1].url = "file:///"
    /\ (\A l \in Loads : fut[l].entry = "movie_bytes")
          => \A i \in 1..Len(root_movie) : root_movie[i].url = "file:///"

\* A loadBytes of an SWF has succeeded and told its sink so.
BytesLoadNoStartReached ==
    \E l \in Loads :
        /\ fut[l].entry = "movie_bytes"
        /\ Record(l) # None
        /\ Record(l)[1].loader_status = "Succeeded"
        /\ Record(l)[1].movie # None
        /\ Record(l)[1].event_handler # "None"
        /\ trace[l] # <<>>

\* The events a Movie load reports to its sink.
IsLifecycleEvent(e) ==
    e.name \in {"onLoadStart", "open", "onLoadProgress", "progress", "onLoadComplete",
                "set_loader_stream(Swf)", "onLoadError", "ioError"}

LifecycleEvents(l) == SelectSeq(trace[l], IsLifecycleEvent)

RootLoads == {l \in MovieLoads : clips[l].kind = "root"}

\* C15 as stated: a Movie load whose target is the root clip reports nothing
\* to its sink, and hands its movie to set_root_movie once.
RootReplacementSilent ==
    \A l \in RootLoads :
        /\ LifecycleEvents(l) = <<>>
        /\ Len(root_movie) <= 1
        /\ fut[l].pc = "set_root" => Len(root_movie) = 1

\* A load into the root clip has replaced the root movie and returned.
RootReplacementSilentReached ==
    \E l \in RootLoads : fut[l].pc = "done" /\ fut[l].result = "Ok" /\ Len(root_movie) = 1

IsErrorEvent(e) == e.name \in {"onLoadError", "ioError"}

ErrorEvents(l) == SelectSeq(trace[l], IsErrorEvent)

IsProgressOrComplete(e) ==
    e.name \in {"onLoadProgress", "progress", "onLoadComplete", "set_loader_stream(Swf)"}

Names(ev) == [i \in 1..Len(ev) |-> ev[i].name]

\* What movie_loader_error reports to each kind of sink.
ErrorReport(event_handler) ==
    CASE event_handler = "Avm1Broadcast" -> <<"onLoadError">>
      [] event_handler = "Avm2LoaderInfo" -> <<"ioError">>
      [] OTHER -> <<>>

\* The fetch of the load by URL l has failed: the future is past its await,
\* the data callback never sniffed a body, and the root movie was neither
\* replaced nor refused.
FetchFailed(l) ==
    /\ fut[l].entry = "movie"
    /\ fut[l].pc \in {"update2", "done"}
    /\ hist[l].content = None
    /\ root_movie = <<>>
    /\ fut[l].result \notin {"UnexpectedData", "InvalidSwf"}

\* A failed load's record changes by the sweep alone, which removes it.
FailedStaysUntilSweep ==
    [][\A l \in Loads :
          (FetchFailed(l) /\ Record(l) # None
                /\ get_loader(load_manager', fut'[l].handle) # Record(l))
             => /\ playerPc = "frame" /\ playerPc' = "idle"
                /\ get_loader(load_manager', fut'[l].handle) = None]_vars

\* The report of a failed fetch: one error event for the sink, no progress
\* or complete event, status Failed.
FetchFailureReported(l) ==
    /\ Len(ErrorEvents(l)) <= 1
    /\ SelectSeq(trace[l], IsProgressOrComplete) = <<>>
    /\ hist[l].status = <<"Pending", "Failed">>
    /\ Record(l) # None =>
          /\ Names(ErrorEvents(l)) = ErrorReport(Record(l)[1].event_handler)
          /\ Record(l)[1].loader_status = "Failed"

\* C16 as stated: when the fetch of a Movie load by URL fails, the sink gets
\* exactly one error event (onLoadError or ioError) and no progress or
\* complete event, the status is Failed, and the record stays until the sweep.
FetchFailureAsStated ==
    /\ [](\A l \in Loads : FetchFailed(l) => FetchFailureReported(l))
    /\ FailedStaysUntilSweep

\* C16: the same, when the error event could be built; when the construction
\* of the IOErrorEvent fails, nothing is dispatched, the future returns the
\* Avm2Error, and the record stays Pending.
FetchFailure ==
    /\ [](\A l \in Loads :
            FetchFailed(l) =>
               IF fut[l].result = "Avm2Error"
               THEN /\ trace[l] = SelectSeq(trace[l], LAMBDA e : ~IsLifecycleEvent(e) \/ e.name = "open")
                    /\ hist[l].status = <<"Pending">>
                    /\ Record(l) # None
                    /\ Record(l)[1].event_handler = "Avm2LoaderInfo"
                    /\ Record(l)[1].loader_status = "Pending"
               ELSE FetchFailureReported(l))
    /\ FailedStaysUntilSweep

\* A failed fetch has been reported to a sink, and the record is Failed.
FetchFailureReached ==
    \E l \in Loads :
        /\ FetchFailed(l)
        /\ Record(l) # None
        /\ Record(l)[1].event_handler # "None"
        /\ Record(l)[1].loader_status = "Failed"
        /\ Len(ErrorEvents(l)) = 1

\* C17 as stated: a Movie load into the root clip whose bytes do not sniff as
\* SWF returns UnexpectedData, reports an error event to its sink, leaves its
\* record Failed, and does not call set_root_movie.
RootUnexpectedDataReported ==
    \A l \in Loads :
        fut[l].result = "UnexpectedData" =>
           /\ l \in RootLoads
           /\ root_movie = <<>>
           /\ Record(l) # None
           /\ Record(l)[1].loader_status = "Failed"
           /\ Names(ErrorEvents(l)) = ErrorReport(Record(l)[1].event_handler)

\* A load into the root clip with a sink has returned UnexpectedData.
RootUnexpectedDataReached ==
    \E l \in RootLoads :
        /\ fut[l].pc = "done"
        /\ fut[l].result = "UnexpectedData"
        /\ Record(l) # None
        /\ Record(l)[1].event_handler # "None"
        /\ root_movie = <<>>

\* The data callback of load l failed to parse an SWF or to decode an image.
DataRejected(l) ==
    /\ l \in MovieLoads \ RootLoads
    /\ fut[l].result \in {"InvalidSwf", "InvalidBitmap"}

\* C18 as stated: when the data callback fails to parse bytes sniffed as SWF
\* or to decode bytes sniffed as an image, the sink is told (onLoadError or
\* ioError) and the record is Failed, for the sweep to remove.
DataFailureSurfaced ==
    \A l \in Loads :
        (DataRejected(l) /\ Record(l) # None) =>
           /\ Record(l)[1].loader_status = "Failed"
           /\ Names(ErrorEvents(l)) = ErrorReport(Record(l)[1].event_handler)

\* A data callback has rejected its bytes, for a load with a sink.
DataFailureSurfacedReached ==
    \E l \in Loads :
        /\ DataRejected(l)
        /\ fut[l].pc = "done"
        /\ hist[l].content # None
        /\ Record(l) # None
        /\ Record(l)[1].event_handler # "None"

IsExtraction(e) == e.name \in {"extract_swz(Ok)", "extract_swz(Err)"}

IsExtracted(e) == e.name = "extract_swz(Ok)"

\* C19 as stated: the Movie data path extracts an SWZ container at most once;
\* the call of movie_loader_data on the extracted bytes attempts no further
\* extraction, so the recursion is at most one level deep.
SwzExtractedOnce ==
    \A l \in Loads :
        /\ Len(SelectSeq(trace[l], IsExtracted)) <= 1
        /\ (\E i \in 1..Len(trace[l]) : IsExtracted(trace[l][i]))
               => Len(SelectSeq(trace[l], IsExtraction)) = 1

\* A data callback has extracted two SWZ containers, one inside the other.
SwzExtractedOnceReached ==
    \E l \in MovieLoads :
        /\ Len(SelectSeq(trace[l], IsExtracted)) = 2
        /\ hist[l].content # None
        /\ fut[l].pc = "done"

UrlLoaderLoads == {l \in Loads : fut[l].entry = "url_loader"}

\* The value of `data` for each requested format.
DataFor(data_format) ==
    CASE data_format = "Binary" -> "data = ByteArray"
      [] data_format = "Text" -> "data = String"
      [] data_format = "Variables" -> "data = Undefined"

\* The fetch of l resolved to a response.
Responded(l) == \E i \in 1..Len(trace[l]) : trace[l][i].name = "Ok(response)"

\* C20: when the fetch of a UrlLoader load succeeds, the target is dispatched
\* one open, its data is then set to the body in the requested format (a
\* byte array or a string of the body's bytes, Undefined for Variables), and
\* one complete is dispatched after that; no ioError is dispatched.
UrlLoaderSuccess ==
    \A l \in UrlLoaderLoads :
        Responded(l) =>
           LET tr == trace[l]
           IN /\ Len(tr) = 5
              /\ tr[1].name \in DataFormats
              /\ tr[2].name = "Ok(response)"
              /\ tr[3].name = "open"
              /\ tr[4].name = DataFor(tr[1].name)
              /\ tr[1].name \in {"Binary", "Text"} => tr[4].cur = tr[2].cur
              /\ tr[5].name = "complete"
              /\ fut[l].result \in {"running", "Ok"}

\* A UrlLoader load of a non-empty body in Binary format has completed.
UrlLoaderSuccessReached ==
    \E l \in UrlLoaderLoads :
        /\ Responded(l)
        /\ fut[l].pc = "done"
        /\ trace[l][1].name = "Binary"
        /\ trace[l][2].cur = MaxLen
        /\ trace[l][Len(trace[l])].name = "complete"

\* The fetch of l resolved to an error.
FetchErred(l) == \E i \in 1..Len(trace[l]) : trace[l][i].name = "Err"

\* The target's data cleared in the requested format, after a failed fetch.
DataCleared(l) ==
    LET tr == trace[l]
    IN /\ Len(tr) >= 3
       /\ tr[1].name \in DataFormats
       /\ tr[2].name = "Err"
       /\ tr[3] = [name |-> DataFor(tr[1].name), cur |-> 0, total |-> 0]

StreamError == [name |-> "ioError", cur |-> 2032, total |-> 0]

\* C21 as stated: after a failed UrlLoader fetch the target's data is reset
\* to the requested format of an empty buffer, then exactly one ioError with
\* code 2032 is dispatched; open and complete are not.
UrlLoaderFailureAsStated ==
    \A l \in UrlLoaderLoads :
        FetchErred(l) => DataCleared(l) /\ Len(trace[l]) = 4 /\ trace[l][4] = StreamError

\* C21: the same, when the IOErrorEvent could be constructed; when its
\* construction fails the data has been reset, nothing is dispatched and the
\* future returns the Avm2Error.
UrlLoaderFailure ==
    \A l \in UrlLoaderLoads :
        FetchErred(l) =>
           /\ DataCleared(l)
           /\ IF fut[l].result = "Avm2Error"
              THEN Len(trace[l]) = 3
              ELSE Len(trace[l]) = 4 /\ trace[l][4] = StreamError

\* A failed UrlLoader fetch in Text format has dispatched its ioError.
UrlLoaderFailureReached ==
    \E l \in UrlLoaderLoads :
        /\ FetchErred(l)
        /\ fut[l].pc = "done"
        /\ trace[l][1].name = "Text"
        /\ trace[l][Len(trace[l])] = StreamError

LoadVarsLoads == {l \in Loads : fut[l].entry = "load_vars"}

Ev(name, cur) == [name |-> name, cur |-> cur, total |-> 0]

\* What a LoadVars load does with a response body of n bytes.
LoadVarsSuccess(n) ==
    <<Ev("Ok(response)", n), Ev("set(_bytesTotal)", n)>>
       \o (IF n > 0 THEN <<Ev("set(_bytesLoaded)", n)>> ELSE <<>>)
       \o <<Ev("onHTTPStatus", 200),
            IF n > 0 THEN Ev("onData(text)", n) ELSE Ev("onData(Undefined)", 0)>>

\* What a LoadVars load does with a failed fetch.
LoadVarsFailure == <<Ev("Err", 0), Ev("onHTTPStatus", 404), Ev("onData(Undefined)", 0)>>

\* C22 as stated: a LoadVars load whose fetch has resolved has called
\* onHTTPStatus once and then onData once: 200 and the text (Undefined for
\* an empty body) with _bytesTotal set, and _bytesLoaded set for a non-empty
\* body; 404 and Undefined, with neither property set, after a failed fetch.
LoadVarsCallbacksAsStated ==
    \A l \in LoadVarsLoads :
        trace[l] # <<>> =>
           IF trace[l][1].name = "Err" THEN trace[l] = LoadVarsFailure
           ELSE trace[l] = LoadVarsSuccess(trace[l][1].cur)

\* C22: the same, when `that.set` of _bytesTotal and _bytesLoaded succeeds;
\* when one of them fails the section returns the error before either call.
LoadVarsCallbacks ==
    \A l \in LoadVarsLoads :
        trace[l] # <<>> =>
           IF trace[l][1].name = "Err" THEN trace[l] = LoadVarsFailure
           ELSE IF fut[l].result = "Avm1Error"
                THEN /\ Len(trace[l]) <= 2
                     /\ IsPrefix(trace[l], LoadVarsSuccess(trace[l][1].cur))
                ELSE trace[l] = LoadVarsSuccess(trace[l][1].cur)

\* A LoadVars load has handed a non-empty body to onData.
LoadVarsCallbacksReached ==
    \E l \in LoadVarsLoads :
        /\ fut[l].pc = "done"
        /\ trace[l] = LoadVarsSuccess(MaxLen)

SoundAvm1Loads == {l \in Loads : fut[l].entry = "sound_avm1"}

Tail0(tr) == IF tr = <<>> THEN <<>> ELSE Tail(tr)

\* The load was asked to stream.
Streaming(l) == trace[l] # <<>> /\ trace[l][1].name = "is_streaming"

\* The trace of the load after the note of is_streaming.
SoundSteps(l) == IF Streaming(l) THEN Tail0(trace[l]) ELSE trace[l]

\* The fetch succeeded and the body was registered as an MP3.
SoundRegistered(tr) ==
    Len(tr) >= 2 /\ tr[1].name = "Ok(response)" /\ tr[2].name = "register_mp3(Ok)"

\* The outcome of the fetch and of register_mp3 at the head of tr.
SoundOutcome(tr) ==
    IF tr[1].name = "Err" THEN SubSeq(tr, 1, 1) ELSE SubSeq(tr, 1, Min(2, Len(tr)))

\* C23 as stated: a SoundAvm1 load calls onLoad once, with true iff the fetch
\* succeeded and the MP3 was registered, the sound and its duration being
\* set before the call; playback starts only after a success of a
\* streaming load, and a failure does nothing but call onLoad(false).
SoundAvm1OnLoad ==
    \A l \in SoundAvm1Loads :
        SoundSteps(l) # <<>> =>
           LET tr == SoundSteps(l)
               did == SubSeq(tr, Len(SoundOutcome(tr)) + 1, Len(tr))
           IN IF SoundRegistered(tr)
              THEN \/ did = <<Ev("set_sound", 0), Ev("set_duration", 0), Ev("onLoad(true)", 0)>>
                   \/ /\ Streaming(l)
                      /\ did = <<Ev("set_sound", 0), Ev("set_duration", 0), Ev("onLoad(true)", 0),
                                 Ev("start_sound", 0)>>
              ELSE did = <<Ev("onLoad(false)", 0)>>

\* A streaming SoundAvm1 load whose fetch failed has run its update section.
SoundAvm1OnLoadReached ==
    \E l \in SoundAvm1Loads :
        /\ Streaming(l)
        /\ Len(trace[l]) >= 3
        /\ trace[l][2].name = "Err"
        /\ trace[l][3].name = "onLoad(false)"
        /\ fut[l].pc = "done"

SoundAvm2Loads == {l \in Loads : fut[l].entry = "sound_avm2"}

\* C24 as stated: a SoundAvm2 load whose fetch has resolved has dispatched
\* either open and then complete, the MP3 registered and the sound set on the
\* target before open (fetch succeeded), or one ioError with code 2032 and no
\* open (fetch failed).
SoundAvm2Events ==
    \A l \in SoundAvm2Loads :
        trace[l] # <<>> =>
           IF trace[l][1].name = "Ok(response)"
           THEN trace[l] = <<Ev("Ok(response)", 0), Ev("register_mp3(Ok)", 0), Ev("set_sound", 0),
                             Ev("open", 0), Ev("complete", 0)>>
           ELSE trace[l] = <<Ev("Err", 0), StreamError>>

\* A SoundAvm2 load has fetched a body that is no MP3, and has returned.
SoundAvm2EventsReached ==
    \E l \in SoundAvm2Loads :
        /\ fut[l].pc = "done"
        /\ fut[l].result = "InvalidSound"
        /\ trace[l] = <<Ev("Ok(response)", 0), Ev("register_mp3(Err)", 0)>>

NetStreamLoads == {l \in Loads : fut[l].entry = "netstream"}

\* C25 as stated: a load registered through load_netstream fetches, and in
\* one update section appends the body to the stream's buffer or reports the
\* fetch error to the stream.
NetStreamDelivered ==
    \A l \in NetStreamLoads :
        fut[l].pc = "done" =>
           /\ fut[l].result = "Ok"
           /\ Len(trace[l]) = 1
           /\ trace[l][1].name \in {"load_buffer", "report_error"}

\* The future of a load_netstream has returned, its record still in the
\* table.
NetStreamDeliveredReached ==
    \E l \in NetStreamLoads :
        /\ fut[l].pc = "done"
        /\ Record(l) # None
        /\ Record(l)[1].kind = "NetStream"

FormLoads == {l \in Loads : fut[l].entry = "form"}

\* The properties a form of n pairs sets, in the order of the body.
FormProperties(n) == [i \in 1..n |-> [name |-> "set(k, v)", cur |-> i, total |-> n]]

\* C26: a Form load that has returned Ok has set every pair of the body as a
\* property, in body order, and after them, for a movie clip target alone,
\* has queued one onData and dispatched one Data clip event; a Form load
\* whose fetch failed has returned the fetch error and done nothing.
FormLoad ==
    \A l \in FormLoads :
        /\ (fut[l].pc = "done" /\ fut[l].result = "Ok") =>
               /\ trace[l] # <<>>
               /\ trace[l][1].name = "Ok(response)"
               /\ trace[l] = <<trace[l][1]>> \o FormProperties(trace[l][1].cur)
                                 \o (IF clips[l].kind = "mc"
                                     THEN <<Ev("queue(onData)", 0), Ev("event_dispatch(Data)", 0)>>
                                     ELSE <<>>)
        /\ fut[l].result = "FetchError" => fut[l].pc = "done" /\ trace[l] = <<>>
        /\ (trace[l] = <<>> /\ fut[l].pc = "done") => fut[l].result = "FetchError"

\* A Form load into a movie clip has set the pairs of its body and fired
\* onData.
FormLoadReached ==
    \E l \in FormLoads :
        /\ fut[l].pc = "done"
        /\ fut[l].result = "Ok"
        /\ clips[l].kind = "mc"
        /\ Len(trace[l]) = 1 + MaxLen + 2

\* The loads whose caller passed a player reference that did not upgrade.
TornDown == {l \in Loads : fut[l].player = "dropped"}

\* C27 as stated: a load whose weak player reference fails to upgrade ends
\* without a panic and without an event.
TeardownSilent ==
    \A l \in TornDown : fut[l].result # "panic" /\ trace[l] = <<>>

\* A load other than a netstream was handed a dead player reference.
TeardownSilentReached ==
    \E l \in TornDown : fut[l].entry = "movie" /\ fut[l].pc = "done" /\ Record(l) # None

\* The record at the handle of load l is of another kind than the load.
ForeignRecord(l) == Record(l) # None /\ Record(l)[1].kind # EntryKind(fut[l].entry)

\* C28 as stated: a callback that finds a record of another kind at its
\* handle panics; it returns no error value and leaves the record alone.
ForeignRecordPanics ==
    [][\A l \in Loads :
          (/\ ForeignRecord(l)
           /\ fut[l].pc \notin {"update1", "update2"}
           /\ fut'[l].pc \in {"update1", "update2"})
             => /\ fut'[l].result = "panic"
                /\ load_manager' = load_manager]_vars

\* A Form callback has run over a record of another kind.
ForeignRecordPanicsReached ==
    \E l \in Loads :
        /\ fut[l].entry = "form"
        /\ ForeignRecord(l)
        /\ fut[l].pc = "done"
        /\ fut[l].result # "FetchError"

RootMovieLoads == {l \in Loads : fut[l].entry = "root_movie"}

\* The URL the precedence spoofed > rewritten > response picks, from the
\* outcomes of rewrite_swf_url and spoofed_url noted in the trace.
PreferredUrl(tr) ==
    IF tr[2].name = "spoofed_url: Some" THEN "http://spoof/"
    ELSE IF tr[1].name = "rewrite_swf_url: rewritten" THEN "http://rewritten/"
    ELSE "response.url"

OnMetadata(l) == \E i \in 1..Len(trace[l]) : trace[l][i].name = "on_metadata"

\* The calls of set_root_movie that load l has made.
RootMovieSets(l) == Len(SelectSeq(trace[l], LAMBDA e : e.name = "set_root_movie"))

\* C29 as stated: a root movie load whose fetch succeeded has, when it
\* returns, called set_root_movie exactly once.
RootMovieSetAsStated ==
    \A l \in RootMovieLoads :
        (fut[l].pc = "done" /\ fut[l].result # "FetchError") => RootMovieSets(l) = 1

\* C29: a root movie load calls set_root_movie at most once, and once when it
\* returns Ok (the fetch succeeded and the body parsed), with a movie whose
\* URL is the spoofed URL, else the rewritten URL, else the response's URL,
\* and whose parameters are the supplied list; on_metadata has been called
\* before; after a failed fetch, or for a body that does not parse,
\* neither on_metadata nor set_root_movie is called.
RootMovieSet ==
    /\ [](\A l \in RootMovieLoads :
            /\ RootMovieSets(l) <= 1
            /\ fut[l].result \in {"FetchError", "InvalidSwf"} =>
                  RootMovieSets(l) = 0 /\ ~OnMetadata(l)
            /\ (fut[l].pc = "done" /\ fut[l].result = "Ok") => RootMovieSets(l) = 1
            /\ RootMovieSets(l) = 1 =>
                  /\ Len(trace[l]) = 5
                  /\ trace[l][3].name = "parameters"
                  /\ trace[l][4].name = "on_metadata"
                  /\ trace[l][5].name = "set_root_movie")
    /\ [][\A l \in RootMovieLoads :
             RootMovieSets(l)' # RootMovieSets(l) =>
                /\ OnMetadata(l)
                /\ Len(root_movie') = Len(root_movie) + 1
                /\ LET movie == root_movie'[Len(root_movie')]
                   IN /\ movie.url = PreferredUrl(trace[l])
                      /\ movie.parameters = [i \in 1..trace[l][3].cur |-> i]]_vars

\* The root movie has been set under a spoofed URL although a compatibility
\* rule had rewritten the response's URL, with MaxLen parameters.
RootMovieSetReached ==
    \E l \in RootMovieLoads :
        /\ fut[l].pc = "done"
        /\ RootMovieSets(l) = 1
        /\ trace[l][1].name = "rewrite_swf_url: rewritten"
        /\ root_movie # <<>>
        /\ root_movie[Len(root_movie)].url = "http://spoof/"
        /\ Len(root_movie[Len(root_movie)].parameters) = MaxLen

Suffix(tr, k) == SubSeq(tr, Len(tr) - k + 1, Len(tr))

Instantiation ==
    <<Ev("post_instantiation", 0), Ev("catchup_display_object_to_frame", 0),
      Ev("set_skip_next_enter_frame", 0)>>

\* The steps of a preload tick that finds the clip c finished, for each sink.
FinishSteps(event_handler, c) ==
    CASE event_handler = "Avm2LoaderInfo" ->
            <<[name |-> "progress", cur |-> c.loaded, total |-> c.total],
              Ev("set_loader_stream(NotYetLoaded)", 0)>>
               \o Instantiation
               \o <<Ev("insert_at_index(0)", 0), Ev("set_loader_stream(Swf)", 0)>>
      [] event_handler = "Avm1Broadcast" ->
            <<[name |-> "onLoadProgress", cur |-> c.loaded, total |-> c.total]>>
               \o Instantiation \o <<Ev("onLoadComplete", 0)>>
      [] OTHER -> Instantiation

\* The step takes the parsed movie of load l to Succeeded.
PreloadFinishes(l) ==
    /\ hist'[l].status # hist[l].status
    /\ hist'[l].status = <<"Pending", "Parsing", "Succeeded">>

\* C30: the update section in which a preload tick finds the clip finished
\* runs, in this order and as its last steps: the tick's progress event; for
\* an InfoObject sink the LoaderStream set to NotYetLoaded; post-instantiation
\* and frame catch-up of the clip; the clip marked to skip its next
\* enter-frame; for an InfoObject sink the clip inserted at index 0 of the
\* loader; and movie_loader_complete, which sets the status Succeeded.
PreloadFinishOrder ==
    [][\A l \in MovieLoads :
          PreloadFinishes(l) =>
             LET after == get_loader(load_manager', fut'[l].handle)
                 steps == FinishSteps(after[1].event_handler, clips'[l])
             IN /\ after # None
                /\ after[1].loader_status = "Succeeded"
                /\ IsPrefix(trace[l], trace'[l])
                /\ Len(trace'[l]) - Len(trace[l]) >= Len(steps)
                /\ Suffix(trace'[l], Len(steps)) = steps
                /\ clips'[l].loaded = clips'[l].total]_vars

\* A frame's preload tick has finished a movie loaded for an InfoObject sink.
PreloadFinishOrderReached ==
    \E l \in MovieLoads :
        /\ lastTick # None
        /\ Record(l) # None
        /\ Record(l)[1].event_handler = "Avm2LoaderInfo"
        /\ Record(l)[1].loader_status = "Succeeded"
        /\ hist[l].status = <<"Pending", "Parsing", "Succeeded">>
        /\ Suffix(trace[l], 1) = <<Ev("set_loader_stream(Swf)", 0)>>
        /\ Len(SelectSeq(trace[l], LAMBDA e : e.name = "insert_at_index(0)")) = 1

\* The places of the initial progress(0, total) events in a trace.
InitialProgress(tr) == {i \in 1..Len(tr) : tr[i].name = "progress" /\ tr[i].cur = 0}

\* The places where the NotYetLoaded snapshot is installed on the info object.
Snapshots(tr) == {i \in 1..Len(tr) : tr[i].name = "set_loader_stream(NotYetLoaded)"}

\* The loads by URL or from bytes whose body sniffed as an SWF.
SwfLoads ==
    {l \in Loads : fut[l].entry \in {"movie", "movie_bytes"} /\ hist[l].content = Some("Swf")}

\* C31: for every SWF load with a LoaderInfo sink, by URL or from bytes, the
\* NotYetLoaded LoaderStream is set on the info object before the initial
\* progress(0, total) event is dispatched.
SnapshotBeforeInitialProgress ==
    \A l \in SwfLoads :
        \A i \in InitialProgress(trace[l]) : \E j \in Snapshots(trace[l]) : j < i

\* A load by URL has dispatched progress(0, total) to its info object, which
\* has no LoaderStream snapshot yet.
SnapshotBeforeInitialProgressReached ==
    \E l \in SwfLoads :
        /\ fut[l].entry = "movie"
        /\ InitialProgress(trace[l]) # {}
        /\ Snapshots(trace[l]) = {}

\* What the step has added to the trace of load l.
Added(l) == SubSeq(trace'[l], Len(trace[l]) + 1, Len(trace'[l]))

\* What a sink is told of a load's progress and completion.
IsDelivery(e) ==
    e.name \in {"progress", "onLoadProgress", "onLoadComplete", "set_loader_stream(Swf)"}

ImageTypes == {"Jpeg", "Png", "Gif"}

\* The step is the data callback of load l, over bytes that sniff as an image.
ImageData(l) ==
    /\ fut[l].pc \in {"await", "mid"}
    /\ fut'[l].pc = "update2"
    /\ hist'[l].content # None
    /\ hist'[l].content[1] \in ImageTypes

\* What each sink is told of a decoded image of L bytes.
ImageEvents(event_handler, L) ==
    CASE event_handler = "Avm2LoaderInfo" ->
            <<[name |-> "progress", cur |-> 0, total |-> L],
              [name |-> "progress", cur |-> L, total |-> L], Ev("set_loader_stream(Swf)", 0)>>
      [] event_handler = "Avm1Broadcast" ->
            <<[name |-> "onLoadProgress", cur |-> L, total |-> L], Ev("onLoadComplete", 0)>>
      [] OTHER -> <<>>

\* The step has put an image of L bytes in the clip of load l, the bitmap at
\* depth 1, before it told the sink of the L bytes.
BitmapInstalled(l, L) ==
    /\ clips'[l].content = "image"
    /\ clips'[l].total = L
    /\ \E i \in 1..Len(Added(l)) :
          /\ Added(l)[i].name = "replace_at_depth(1)"
          /\ \A j \in 1..Len(Added(l)) :
                (IsDelivery(Added(l)[j]) /\ Added(l)[j].cur = L) => i < j

\* The step has told the sink of load l of an image of L bytes, and the load
\* has succeeded.
ImageDelivered(l, L) ==
    /\ SelectSeq(Added(l), IsDelivery) = ImageEvents(Record(l)[1].event_handler, L)
    /\ hist'[l].status = Append(hist[l].status, "Succeeded")

\* C32 as stated: the data callback of an image that decodes tells the sink
\* progress(0, L) (LoaderInfo only), progress(L, L) and completion, after it
\* has installed the bitmap at depth 1 of the target clip, and the status
\* ends Succeeded.
ImageLoadAsStated ==
    [][\A l \in Loads :
         (ImageData(l) /\ fut'[l].result # "InvalidBitmap") =>
            \E L \in 1..MaxLen : BitmapInstalled(l, L) /\ ImageDelivered(l, L)]_vars

\* C32: the data callback of an image that decodes returns Ok or the error of
\* a progress event that could not be dispatched. When it returns Ok it has
\* told the sink, within its one update section, progress(0, L) (LoaderInfo
\* only), progress(L, L) and completion, and the status is Succeeded; a target
\* that is a movie clip then holds the image, its bitmap installed at depth 1
\* before progress(L, L), and any other target is left as it was. When a
\* progress event fails the sink has been told at most progress(0, L) and the
\* status stays Pending.
ImageLoad ==
    [][\A l \in Loads :
         (ImageData(l) /\ fut'[l].result # "InvalidBitmap") =>
            \/ /\ fut'[l].result = "running"
               /\ \E L \in 1..MaxLen :
                     /\ ImageDelivered(l, L)
                     /\ IF IsMovieClip(clips[l]) THEN BitmapInstalled(l, L)
                        ELSE clips'[l] = clips[l]
            \/ /\ fut'[l].result = "Avm2Error"
               /\ Record(l)[1].event_handler = "Avm2LoaderInfo"
               /\ hist'[l].status = hist[l].status
               /\ \/ SelectSeq(Added(l), IsDelivery) = <<>> /\ clips'[l] = clips[l]
                  \/ \E L \in 1..MaxLen :
                        /\ SelectSeq(Added(l), IsDelivery) =
                              <<[name |-> "progress", cur |-> 0, total |-> L]>>
                        /\ BitmapInstalled(l, L)]_vars

\* A load with a LoaderInfo sink has succeeded with an image of MaxLen bytes
\* in its clip, in the update section of its data callback.
ImageLoadReached ==
    \E l \in Loads :
        /\ fut[l].pc = "update2"
        /\ fut[l].result = "running"
        /\ hist[l].content # None
        /\ hist[l].content[1] \in ImageTypes
        /\ Record(l)[1].event_handler = "Avm2LoaderInfo"
        /\ Record(l)[1].loader_status = "Succeeded"
        /\ clips[l].content = "image"
        /\ clips[l].total = MaxLen

\* The step is the data callback of load l, over bytes of unknown type.
UnknownData(l) ==
    /\ fut[l].pc \in {"await", "mid"}
    /\ fut'[l].pc = "update2"
    /\ hist'[l].content = Some("Unknown")

\* What each sink is told of bytes of unknown type.
UnknownEvents(event_handler) ==
    CASE event_handler = "Avm2LoaderInfo" ->
            <<[name |-> "progress", cur |-> 0, total |-> 0], Ev("set_loader_stream(Swf)", 0)>>
      [] event_handler = "Avm1Broadcast" ->
            <<[name |-> "onLoadProgress", cur |-> 0, total |-> 0], Ev("onLoadComplete", 0)>>
      [] OTHER -> <<>>

\* C33 as stated: the data callback of bytes of unknown type installs nothing
\* on the target clip, tells the sink one progress event with current =
\* total = 0 and then completion, and leaves the load in a terminal status.
UnknownLoadAsStated ==
    [][\A l \in Loads :
         UnknownData(l) =>
            /\ clips'[l] = clips[l]
            /\ SelectSeq(Added(l), IsDelivery) = UnknownEvents(Record(l)[1].event_handler)
            /\ LET status == hist'[l].status
               IN status[Len(status)] \in {"Succeeded", "Failed"}]_vars

\* C33: the data callback of bytes of unknown type installs nothing on the
\* target clip; it either returns Ok, having told the sink one progress event
\* with current = total = 0 and then completion, the status then Succeeded,
\* or (LoaderInfo sink) returns the error of the progress event that could
\* not be dispatched, having told the sink nothing, the status still Pending.
UnknownLoad ==
    [][\A l \in Loads :
         UnknownData(l) =>
            /\ clips'[l] = clips[l]
            /\ \/ /\ fut'[l].result = "running"
                  /\ SelectSeq(Added(l), IsDelivery) = UnknownEvents(Record(l)[1].event_handler)
                  /\ hist'[l].status = Append(hist[l].status, "Succeeded")
               \/ /\ fut'[l].result = "Avm2Error"
                  /\ Record(l)[1].event_handler = "Avm2LoaderInfo"
                  /\ SelectSeq(Added(l), IsDelivery) = <<>>
                  /\ hist'[l].status = hist[l].status]_vars

\* A load with an AVM1 broadcaster has succeeded over bytes of unknown type
\* that are no SWZ container, and told the broadcaster of 0 bytes.
UnknownLoadReached ==
    \E l \in Loads :
        /\ fut[l].pc = "update2"
        /\ hist[l].content = Some("Unknown")
        /\ Record(l)[1].event_handler = "Avm1Broadcast"
        /\ Record(l)[1].loader_status = "Succeeded"
        /\ \A i \in 1..Len(trace[l]) : trace[l][i].name # "extract_swz(Ok)"
        /\ \E i \in 1..Len(trace[l]) :
              trace[l][i] = [name |-> "onLoadProgress", cur |-> 0, total |-> 0]

\* The step is the data callback of load l, over bytes that sniff as an SWF.
SwfData(l) ==
    /\ fut[l].pc \in {"await", "mid"}
    /\ fut'[l].pc = "update2"
    /\ hist'[l].content = Some("Swf")

\* The tick that the data callback ran has preloaded the whole movie into the
\* clip of load l.
FirstTickFinished(l) ==
    /\ IsMovieClip(clips[l])
    /\ clips'[l].content = "swf"
    /\ clips'[l].loaded = clips'[l].total

IsCompletion(e) == e.name \in {"onLoadComplete", "set_loader_stream(Swf)"}

\* The step has taken load l from Pending through Parsing to Succeeded and
\* has told its sink, if it has one, of the completion.
CompletedAtOnce(l) ==
    /\ hist[l].status = <<"Pending">>
    /\ hist'[l].status = <<"Pending", "Parsing", "Succeeded">>
    /\ Record(l)[1].event_handler # "None" =>
          /\ Added(l) # <<>>
          /\ IsCompletion(Added(l)[Len(Added(l))])

\* A load that has succeeded stays so, and a frame's preload tick finds in
\* Parsing only loads whose status has not gone beyond Parsing.
SucceededIsFinal ==
    \A l \in Loads :
        /\ (hist[l].status # <<>> /\ hist[l].status[Len(hist[l].status)] = "Succeeded")
              => hist'[l].status = hist[l].status
        /\ (playerPc = "idle" /\ playerPc' = "frame" /\ l \in lastTick'[1].parsing)
              => hist[l].status = <<"Pending", "Parsing">>

\* C34 as stated: when the preload of an SWF completes in the tick that the
\* data callback runs, the status goes from Pending through Parsing to
\* Succeeded within that update section, so that no frame tick, sweep or other
\* load finds the record in Parsing and no frame's preload tick is needed.
ImmediatePreloadAsStated ==
    [][/\ \A l \in Loads : (SwfData(l) /\ FirstTickFinished(l)) => CompletedAtOnce(l)
       /\ SucceededIsFinal]_vars

\* C34: when the preload of an SWF completes in the tick that the data
\* callback runs, either the callback returns Ok and the status has gone from
\* Pending through Parsing to Succeeded within that update section, the sink
\* told of the completion, so that no later section finds the record in
\* Parsing; or (LoaderInfo sink) an event of the tick could not be dispatched,
\* the callback returns that error and the record is left in Parsing.
ImmediatePreload ==
    [][/\ \A l \in Loads :
            (SwfData(l) /\ FirstTickFinished(l)) =>
               \/ fut'[l].result = "running" /\ CompletedAtOnce(l)
               \/ /\ fut'[l].result = "Avm2Error"
                  /\ Record(l)[1].event_handler = "Avm2LoaderInfo"
                  /\ hist'[l].status = <<"Pending", "Parsing">>
                  /\ \A i \in 1..Len(Added(l)) : ~IsCompletion(Added(l)[i])
       /\ SucceededIsFinal]_vars

\* A movie of MaxLen bytes has succeeded in the update section of its data
\* callback, before any frame ticked.
ImmediatePreloadReached ==
    \E l \in Loads :
        /\ fut[l].pc = "update2"
        /\ hist[l].status = <<"Pending", "Parsing", "Succeeded">>
        /\ clips[l].loaded = MaxLen
        /\ clips[l].total = MaxLen
        /\ Record(l)[1].event_handler = "Avm2LoaderInfo"
        /\ lastTick = None

\* The step is the first update section of the Movie load l.
FirstSection(l) ==
    /\ fut[l].entry \in {"movie", "movie_bytes"}
    /\ fut[l].pc = IF fut[l].entry = "movie" THEN "built" ELSE "start"
    /\ fut'[l].pc = "update1"

\* The start event of a load by URL, for each sink; a load from bytes has none.
StartEvents(entry, event_handler) ==
    IF entry # "movie" THEN <<>>
    ELSE CASE event_handler = "Avm1Broadcast" -> <<Ev("onLoadStart", 0)>>
           [] event_handler = "Avm2LoaderInfo" -> <<Ev("open", 0)>>
           [] OTHER -> <<>>

\* The unloading and the reset of a movie clip.
ResetSteps ==
    (IF is_action_script_3 THEN <<>> ELSE <<Ev("avm1_unload", 0)>>)
       \o <<Ev("replace_with_movie(None)", 0)>>

\* The effects of the first update section on a movie clip.
Replacement(l) == ResetSteps \o StartEvents(fut[l].entry, Record(l)[1].event_handler)

\* The new bytes are applied to the clip, or made the root movie.
IsApplication(e) == e.name \in {"replace_with_movie", "replace_at_depth(1)", "set_root_movie"}

\* C35: for a Movie load into a movie clip, the first update section of the
\* future runs the AVM1 unload hook on the clip if and only if the player is
\* not in AVM2 mode, then resets the clip to an empty movie, and only then
\* emits the start event (loads by URL); nothing of the load has touched the
\* clip before, and the new bytes are applied only after all of this.
ClipResetFirst ==
    /\ [][\A l \in Loads :
             (FirstSection(l) /\ IsMovieClip(clips[l])) =>
                /\ trace[l] = <<>>
                /\ clips[l].content = "original"
                /\ Added(l) = Replacement(l)
                /\ clips'[l].content = "empty"]_vars
    /\ [](\A l \in Loads :
            (fut[l].entry \in {"movie", "movie_bytes"} /\ IsMovieClip(clips[l])) =>
                \A i \in 1..Len(trace[l]) :
                    IsApplication(trace[l][i]) =>
                       /\ i > Len(ResetSteps)
                       /\ SubSeq(trace[l], 1, Len(ResetSteps)) = ResetSteps
                       /\ \A k \in 1..Len(trace[l]) :
                             IsStartEvent(trace[l][k]) => k = Len(ResetSteps) + 1 /\ k < i)

\* Under AVM1 a load by URL has unloaded and emptied its clip, broadcast
\* onLoadStart and then put the new movie in the clip.
ClipResetFirstReached ==
    \E l \in Loads :
        /\ fut[l].entry = "movie"
        /\ ~is_action_script_3
        /\ Len(trace[l]) >= 4
        /\ trace[l][1].name = "avm1_unload"
        /\ trace[l][2].name = "replace_with_movie(None)"
        /\ trace[l][3].name = "onLoadStart"
        /\ \E i \in 4..Len(trace[l]) : trace[l][i].name = "replace_with_movie"
        /\ clips[l].content = "swf"

\* ------------------------------------------------------------ liveness
\* A step of the future of load l: the executor polls it.
FutureStep(l) ==
    /\ l \in Loads
    /\ \/ FetchBuild(l)
       \/ Unlock(l)
       \/ movie_loader_update1(l)
       \/ movie_loader_bytes_update1(l)
       \/ movie_loader_replace_root(l)
       \/ movie_loader_bytes_replace_root(l)
       \/ movie_loader_fetched(l)
       \/ movie_loader_bytes_data(l)
       \/ movie_loader_fetch_failed(l)
       \/ root_movie_fetch_failed(l)
       \/ root_movie_rewrite_url(l)
       \/ root_movie_spoofed_url(l)
       \/ root_movie_parse(l)
       \/ root_movie_set(l)
       \/ form_loader_fetch_failed(l)
       \/ form_loader_update(l)
       \/ load_vars_loader_update(l)
       \/ load_url_loader_update(l)
       \/ sound_loader_avm1_update(l)
       \/ sound_loader_avm2_update(l)
       \/ stream_loader(l)

\* A frame begins: the player locks itself for the frame's update section,
\* which opens with the preload tick.  Of the steps of Next only PlayerTick
\* is one, and it can be taken whenever this can.
FrameBegins ==
    /\ playerPc = "idle"
    /\ lock = None
    /\ playerPc' = "frame"

\* Every fetch resolves and the executor keeps polling each future, which
\* gets the player lock whenever it keeps asking for it; the player keeps
\* running frames, each with its preload tick and its sweep.
SpecLive ==
    /\ Init
    /\ [][Next]_vars
    /\ \A l \in 1..MaxTraced : SF_vars(FutureStep(l))
    /\ SF_playerPc(FrameBegins)
    /\ SF_vars(PlayerSweep)

\* C36: under these assumptions every registered Movie record is eventually
\* removed from the table, whatever the outcome of its fetch, the type of its
\* body, the result of parsing or decoding it, and its target clip.
MovieEventuallyRemoved ==
    \A l \in 1..MaxTraced :
        (l \in Loads /\ fut[l].entry \in {"movie", "movie_bytes"})
            ~> (l \in Loads /\ Record(l) = None)

\* The future of a Movie load has returned, the frame that followed has ticked
\* and swept, and the record is in the table in a status that no sweep
\* removes and that nothing will change.
MovieEventuallyRemovedReached ==
    \E l \in MovieLoads :
        /\ fut[l].pc = "done"
        /\ playerPc = "idle"
        /\ lock = None
        /\ Record(l) # None
        /\ Record(l)[1].loader_status = "Pending"

\* How often onLoadInit has been queued for load l.
OnLoadInits(l) == Len(SelectSeq(trace[l], IsOnLoadInit))

\* The step is the sweep of a frame.
Sweep == playerPc = "frame" /\ playerPc' = "idle"

\* The record of load l is that of a movie that has succeeded and has an AVM1
\* broadcaster.
LegacySucceeded(l) ==
    /\ Record(l) # None
    /\ Record(l)[1].kind = "Movie"
    /\ Record(l)[1].loader_status = "Succeeded"
    /\ Record(l)[1].event_handler = "Avm1Broadcast"

\* C37: onLoadInit is queued for a load only by a sweep that finds its record
\* a Movie in Succeeded with an AVM1 broadcaster, once, and that sweep removes
\* the record; so it is queued at most once for any load, never for a load
\* that failed, is Pending or Parsing, or has a LoaderInfo sink or none, and
\* once the record of a load that broadcast onLoadComplete has been removed
\* it has been queued exactly once.
OnLoadInitOnce ==
    /\ [][\A l \in Loads :
             /\ Sweep => Added(l) = IF LegacySucceeded(l)
                                    THEN <<Ev("queue(onLoadInit)", 0)>> ELSE <<>>
             /\ OnLoadInits(l)' # OnLoadInits(l) =>
                   /\ Sweep
                   /\ LegacySucceeded(l)
                   /\ get_loader(load_manager', fut[l].handle) = None]_vars
    /\ [](\A l \in Loads :
            /\ OnLoadInits(l) <= 1
            /\ OnLoadInits(l) = 1 =>
                  /\ Record(l) = None
                  /\ hist[l].status[Len(hist[l].status)] = "Succeeded"
                  /\ \E i \in 1..Len(trace[l]) : trace[l][i].name = "onLoadComplete"
            /\ (Record(l) = None /\ \E i \in 1..Len(trace[l]) : trace[l][i].name = "onLoadComplete")
                  => OnLoadInits(l) = 1)

\* A second sweep has run after the one that queued onLoadInit for a load
\* and removed its record.
OnLoadInitOnceReached ==
    \E l \in Loads :
        /\ OnLoadInits(l) = 1
        /\ trace[l][Len(trace[l])].name = "queue(onLoadInit)"
        /\ Record(l) = None
        /\ playerPc = "frame"

\* The future of load l has yet to enter its last update section.
CallbackLeft(l) == fut[l].pc \notin {"update2", "done"}

IsTerminal(status) == status # <<>> /\ status[Len(status)] \in {"Failed", "Succeeded"}

\* The record of load l is in the table, of the kind its entry point added.
RecordStands(l) ==
    /\ Record(l) # None
    /\ Record(l)[1].kind = EntryKind(fut[l].entry)
    /\ Record(l)[1].target = l

\* Records leave the table by the sweep alone, and only Movies in Failed or
\* Succeeded do.
OnlySweepRemoves ==
    \A h \in Table : get_loader(load_manager', h) = None => Sweep /\ h \in TerminalMovies

\* The record of every load with a callback left stands, and no future has
\* found its record missing or of another kind.
NoCallbackFindsRecordMissing ==
    \A l \in Loads :
        /\ CallbackLeft(l) => RecordStands(l) /\ ~IsTerminal(hist[l].status)
        /\ fut[l].result \notin {"Cancelled", "panic"}

\* C38 as stated: a record whose future has a callback left to run is in the
\* table, because only the sweep removes records, only Movies in Failed or
\* Succeeded, and a Movie reaches those statuses only in the last callback of
\* its future; no callback finds its record missing or of another kind.
RecordsAwaitCallbacksAsStated ==
    /\ []NoCallbackFindsRecordMissing
    /\ [][OnlySweepRemoves]_vars
    /\ [][\A l \in Loads :
             (IsTerminal(hist'[l].status) /\ ~IsTerminal(hist[l].status))
                => (fut[l].pc \in {"await", "mid"} /\ fut'[l].pc = "update2")]_vars

\* C38: a record whose future has a callback left to run is in the table,
\* because only the sweep removes records, only Movies in Failed or
\* Succeeded, and a Movie reaches those statuses in the last callback of its
\* future or in a frame's preload tick after it; no callback finds its record
\* missing or of another kind.
RecordsAwaitCallbacks ==
    /\ []NoCallbackFindsRecordMissing
    /\ [][OnlySweepRemoves]_vars
    /\ [][\A l \in Loads :
             (IsTerminal(hist'[l].status) /\ ~IsTerminal(hist[l].status))
                => \/ fut[l].pc \in {"await", "mid"} /\ fut'[l].pc = "update2"
                   \/ /\ playerPc = "idle" /\ playerPc' = "frame"
                      /\ fut[l].pc \in {"update2", "done"}
                      /\ hist[l].status = <<"Pending", "Parsing">>]_vars

\* A sweep has removed the record of a load, its slot has been given to the
\* record of a second load, and that load's future has yet to run a callback.
RecordsAwaitCallbacksReached ==
    \E l, m \in Loads :
        /\ fut[l].pc = "done"
        /\ Record(l) = None
        /\ CallbackLeft(m)
        /\ RecordStands(m)
        /\ fut[m].handle.index = fut[l].handle.index

\* ====================================================================
\* QName's init (avm2/globals/q_name.rs), called from the constructor with
\* the object under construction and the two constructor arguments.
\* ====================================================================

\* A string is the sequence of its characters.
Chars == {"a", "*"}
Strings == UNION {[1..n -> Chars] : n \in 0..MaxChars}

\* Namespace::package(name) and the VM's public namespace.
package(name) == [kind |-> "package", name |-> name]
public_namespace == [kind |-> "public", name |-> <<>>]
Namespaces == {public_namespace} \cup {package(s) : s \in Strings}

\* A QName's name: each part is set or not. A fresh object has neither.
QNames == [namespace : {None} \cup {Some(ns) : ns \in Namespaces},
          local_name : {None} \cup {Some(s) : s \in Strings}]
unset_name == [namespace |-> None, local_name |-> None]

\* What an object's toString gives when the VM calls it: a string, or None
\* when the call throws.
ToStrings == {None} \cup {Some(s) : s \in Strings}

\* The values a constructor argument can be. A QName object among them has
\* its local name set.
Undefined == [value |-> "Undefined"]
Null == [value |-> "Null"]
StringValues == {[value |-> "String", string |-> s] : s \in Strings}
NamespaceObjects ==
    {[value |-> "Object", object |-> "NamespaceObject",
      namespace |-> ns, to_string |-> t] : ns \in Namespaces, t \in ToStrings}
QNameObjects ==
    {[value |-> "Object", object |-> "QNameObject",
      name |-> n, to_string |-> t] :
        n \in {m \in QNames : m.local_name # None}, t \in ToStrings}
ScriptObjects ==
    {[value |-> "Object", object |-> "ScriptObject", to_string |-> t] :
        t \in ToStrings}
Values ==
    {Undefined, Null} \cup StringValues \cup NamespaceObjects
        \cup QNameObjects \cup ScriptObjects

IsQNameObject(v) == v.value = "Object" /\ v.object = "QNameObject"

\* o.as_namespace(): the namespace of a Namespace object, None for any
\* other value.
as_namespace(v) ==
    IF v.value = "Object" /\ v.object = "NamespaceObject"
    THEN Some(v.namespace)
    ELSE None

Ok(x) == [ok |-> TRUE, value |-> x]
Err == [ok |-> FALSE]

\* v.coerce_to_string(activation): a primitive gives its string, an object
\* what its toString gives, and the error when that call throws.
coerce_to_string(v) ==
    CASE v.value = "Undefined" -> Ok(<<"u", "n", "d", "e", "f", "i", "n", "e", "d">>)
      [] v.value = "Null" -> Ok(<<"n", "u", "l", "l">>)
      [] v.value = "String" -> Ok(v.string)
      [] v.value = "Object" ->
            IF v.to_string = None THEN Err ELSE Ok(v.to_string[1])

\* this.set_local_name, this.set_namespace, this.init_name.
set_local_name(this, local) == [this EXCEPT !.local_name = Some(local)]
set_namespace(this, namespace) == [this EXCEPT !.namespace = Some(namespace)]
init_name(this, name) == name

\* The match on ns_arg: the namespace to set, if any, or the error of the
\* coercion.
ns_arg_namespace_null_coerced(ns_arg) ==
    CASE as_namespace(ns_arg) # None -> Ok(as_namespace(ns_arg))
      [] ns_arg.value = "Undefined" -> Ok(None)
      [] OTHER ->
            LET s == coerce_to_string(ns_arg)
            IN  IF s.ok THEN Ok(Some(package(s.value))) ELSE Err

ns_arg_namespace(ns_arg) ==
    CASE as_namespace(ns_arg) # None -> Ok(as_namespace(ns_arg))
      [] ns_arg.value \in {"Undefined", "Null"} -> Ok(None)
      [] OTHER ->
            LET s == coerce_to_string(ns_arg)
            IN  IF s.ok THEN Ok(Some(package(s.value))) ELSE Err

\* The branch taken when the second argument is Undefined and the first is
\* not a QName object: the object and the namespace to set, if any.
init_from_local_any_set(this, qname_arg) ==
    LET local == coerce_to_string(qname_arg)
    IN  IF ~local.ok
        THEN Err
        ELSE Ok([this |-> set_local_name(this, local.value),
                 namespace |-> Some(public_namespace)])

init_from_local(this, qname_arg) ==
    LET local == coerce_to_string(qname_arg)
    IN  IF ~local.ok
        THEN Err
        ELSE IF local.value # <<"*">>
             THEN Ok([this |-> set_local_name(this, local.value),
                      namespace |-> Some(public_namespace)])
             ELSE Ok([this |-> this, namespace |-> None])

\* The final step: set the namespace if there is one, and return Ok.
set_namespace_and_return(this, namespace) ==
    [this |-> IF namespace # None THEN set_namespace(this, namespace[1]) ELSE this,
     returned |-> "Ok"]

\* init(activation, this, args): the object afterwards and what the call
\* returned. Every `?` returns the error at once, leaving what was set.
init(this, args) ==
    IF args[2] # Undefined
    THEN LET ns_arg == args[1]
             local_arg == args[2]
             namespace == ns_arg_namespace(ns_arg)
         IN  IF ~namespace.ok
             THEN [this |-> this, returned |-> "Err"]
             ELSE IF IsQNameObject(local_arg)
                  THEN set_namespace_and_return(
                           set_local_name(this, local_arg.name.local_name[1]),
                           namespace.value)
                  ELSE LET local == coerce_to_string(local_arg)
                       IN  IF ~local.ok
                           THEN [this |-> this, returned |-> "Err"]
                           ELSE set_namespace_and_return(
                                    set_local_name(this, local.value),
                                    namespace.value)
    ELSE LET qname_arg == args[1]
         IN  IF IsQNameObject(qname_arg)
             THEN [this |-> init_name(this, qname_arg.name), returned |-> "Ok"]
             ELSE LET from_local == init_from_local(this, qname_arg)
                  IN  IF ~from_local.ok
                      THEN [this |-> this, returned |-> "Err"]
                      ELSE set_namespace_and_return(from_local.value.this,
                                          from_local.value.namespace)

\* The constructor has allocated the object (q_name_allocator) and is about
\* to call init with its two arguments. QName is an AVM2 class; no load is
\* registered.
InitQName ==
    /\ load_manager = ArenaNew
    /\ fut = <<>>
    /\ clips = <<>>
    /\ trace = <<>>
    /\ hist = <<>>
    /\ lock = None
    /\ playerPc = "idle"
    /\ root_movie = <<>>
    /\ is_action_script_3 = TRUE
    /\ lastTick = None
    /\ vmErrors = 0
    /\ scope = [loads |-> 0, trace |-> FALSE, clips |-> {}, player |-> {TRUE}]
    /\ \E args \in Values \X Values :
           qname = Some([this |-> unset_name, args |-> args, returned |-> None])

\* The call of init.
QNameInit ==
    /\ qname # None
    /\ qname[1].returned = None
    /\ LET r == init(qname[1].this, qname[1].args)
       IN  qname' = Some([qname[1] EXCEPT !.this = r.this,
                                          !.returned = Some(r.returned)])
    /\ UNCHANGED <<load_manager, fut, clips, trace, hist, lock, playerPc,
                   root_movie, is_action_script_3, lastTick, vmErrors, scope>>

NextQName == QNameInit

SpecQName == InitQName /\ [][NextQName]_vars

\* ---------------------------------------------------------------- C39, C40
\* The call has returned.
QNameReturned == qname # None /\ qname[1].returned # None

\* The string a value coerces to, set when the coercion gives one.
Coerced(v) ==
    IF coerce_to_string(v).ok THEN Some(coerce_to_string(v).value) ELSE None

\* What the two-argument form is to set: the local name from the second
\* argument and the namespace from the first.
LocalNameOf(local_arg) ==
    IF IsQNameObject(local_arg)
    THEN local_arg.name.local_name
    ELSE Coerced(local_arg)

NamespaceOf(ns_arg) ==
    IF ns_arg.value = "Object" /\ ns_arg.object = "NamespaceObject"
    THEN Some(ns_arg.namespace)
    ELSE IF ns_arg \in {Undefined, Null}
         THEN None
         ELSE IF Coerced(ns_arg) = None
              THEN None
              ELSE Some(package(Coerced(ns_arg)[1]))

\* The coercions the two-argument form performs: of the first argument
\* unless it is a Namespace object, Undefined or Null, and of the second
\* unless it is a QName object.
CoercionThrows(args) ==
    \/ /\ as_namespace(args[1]) = None
       /\ args[1] \notin {Undefined, Null}
       /\ Coerced(args[1]) = None
    \/ /\ ~IsQNameObject(args[2])
       /\ Coerced(args[2]) = None

\* C39 as stated: whenever init has been called with a second argument that
\* is not Undefined, the local name is the second argument's local name or
\* string coercion and the namespace is the first argument's namespace, the
\* package namespace of its string coercion, or unset for Undefined and Null.
QNameFromTwoAsStated ==
    (QNameReturned /\ qname[1].args[2] # Undefined) =>
        /\ qname[1].this.local_name = LocalNameOf(qname[1].args[2])
        /\ qname[1].this.namespace = NamespaceOf(qname[1].args[1])

\* C39: init called with a second argument that is not Undefined returns Ok
\* exactly when no coercion it performs throws, and then the local name is
\* the second argument's local name if that is a QName object and its string
\* coercion otherwise, and the namespace is the first argument's namespace if
\* that is a Namespace object, the package namespace named by its string
\* coercion for any other value except Undefined and Null, and unset for
\* Undefined and Null. When a coercion throws, init returns the error and
\* sets neither the local name nor the namespace.
QNameFromTwo ==
    (QNameReturned /\ qname[1].args[2] # Undefined) =>
        IF CoercionThrows(qname[1].args)
        THEN /\ qname[1].returned = Some("Err")
             /\ qname[1].this = unset_name
        ELSE /\ qname[1].returned = Some("Ok")
             /\ qname[1].this.local_name = LocalNameOf(qname[1].args[2])
             /\ qname[1].this.local_name # None
             /\ qname[1].this.namespace = NamespaceOf(qname[1].args[1])

\* A call given a string and a QName object has returned: the namespace is
\* the package namespace of the string, the local name the QName's.
QNameFromTwoReached ==
    /\ QNameReturned
    /\ qname[1].returned = Some("Ok")
    /\ qname[1].args[1].value = "String"
    /\ IsQNameObject(qname[1].args[2])
    /\ qname[1].this.namespace = Some(package(qname[1].args[1].string))
    /\ qname[1].this.local_name = qname[1].args[2].name.local_name

\* C40: whenever init has been called with Undefined as its second argument,
\* a first argument that is a QName object has had its whole name copied and
\* nothing else set; any other first argument, coerced to a string, has given
\* the local name and the public namespace if the string is not "*", and
\* neither a local name nor a namespace if it is "*".
QNameFromOne ==
    (QNameReturned /\ qname[1].args[2] = Undefined) =>
        IF IsQNameObject(qname[1].args[1])
        THEN qname[1].this = qname[1].args[1].name
        ELSE LET local == Coerced(qname[1].args[1])
             IN  local # None =>
                     IF local[1] # <<"*">>
                     THEN qname[1].this = [namespace |-> Some(public_namespace),
                                           local_name |-> local]
                     ELSE qname[1].this = unset_name

\* A call given the string "*" and Undefined has returned Ok with neither
\* part of the name set.
QNameFromOneReached ==
    /\ QNameReturned
    /\ qname[1].returned = Some("Ok")
    /\ qname[1].args[2] = Undefined
    /\ qname[1].args[1] = [value |-> "String", string |-> <<"*">>]
    /\ qname[1].this = unset_name

====
